---- MODULE Spec2Model ----
(***************************************************************************)
(* Model of github.com/go-sw/ntfs, package backup: the WIN32_STREAM_ID     *)
(* header codec (BackupHeader.fill / ToBytes / extractStrmName), the        *)
(* forward pipeline BackupUtil (Read / Seek), the reverse pipeline          *)
(* RestoreUtil (Write / Seek) and the native transfer object bkupStruct    *)
(* (close and its cleanup; read, write, seek and close called by several   *)
(* goroutines); and of package ads: the StreamInfoMap of a FileADS under    *)
(* RenameADS, RemoveADS and RemoveAllADS.                                   *)
(*                                                                         *)
(* Bytes are naturals 0..255, byte slices are sequences of bytes.  A Go    *)
(* string is modelled as the sequence of its UTF-16 code units; the model  *)
(* inputs stay in the ASCII range, where one code unit is one byte of the  *)
(* Go string.  Errors are strings, "nil" is the nil error.                 *)
(*                                                                         *)
(* A uint32, int64 or uint64 that comes from the bytes of a stream (Id,    *)
(* Attributes, Size, SparseOffset, StreamNameSize, BytesLeft and what Seek  *)
(* returns) is the sequence of its 16-bit digits, least significant first:  *)
(* two digits for a uint32, four for an int64 or uint64, an int64 in two's  *)
(* complement.  <<d1, d2, d3, d4>> is d1 + 2^16 d2 + 2^32 d3 + 2^48 d4,     *)
(* less 2^64 for an int64 with d4 >= 2^15.  Lengths, counts and offsets of  *)
(* byte slices are integers.                                                *)
(***************************************************************************)
EXTENDS Integers, Sequences, FiniteSets, TLC

VARIABLES
    \* ---- header codec ----
    chdr,      \* the header value the next codec step works on
    cwire,     \* the wire bytes the next decode reads
    cin,       \* the input the behaviour started from: a header or wire bytes
    ctrace,    \* the codec steps taken so far, "E" (ToBytes) and "D" (fill)
    cres,      \* result of the last codec step
    \* ---- pipelines ----
    input,     \* the stream the caller owns: its records and its bytes
    caller,    \* the caller: mode "rt" (write input to RestoreUtil, then read the sink back) or
               \* "fwd" (read input directly), the chunk sizes it uses, whether it seeks
    wpos,      \* number of input bytes the caller has passed to Write so far
    rs,        \* the RestoreUtil object: ctx (Hdr, BytesLeft, LastErr, state), hdrData
    sink,      \* bytes the RestoreUtil's sink has received
    bu,        \* the BackupUtil object: ctx, leftData
    rpos,      \* read position of the BackupUtil's source
    out,       \* concatenation of the bytes returned by Read so far
    tuples,    \* records seen by the BackupUtil: header fields and payload pulled
    last,      \* the last pipeline call: operation, arguments, result (n of Read and Write,
               \* moved of Seek), source/sink calls
    sought,    \* whether a Seek was forwarded to the source or sink
    \* ---- native transfer object ----
    bk,        \* the bkupStruct: h, ctx, restore, cleanup; whether its owner is reachable
               \* and whether an explicit Close waits for the mutex
    native,    \* history of the native releases: handle closes, context aborts, Close calls
    lastClose, \* the last close(): who ran it, what it found, native calls made, errors
    \* ---- goroutines sharing one native transfer object ----
    so,        \* the shared bkupStruct: h, ctx, restore, cleanup
    mu,        \* s.mu: 0 when unlocked, else the goroutine that holds it
    gr,        \* per goroutine: where it is in its call, the call, what the native side
               \* was given and returned, the result
    hist,      \* handles the native side released, calls started, contexts handed out
    \* ---- alternate data streams (package ads) ----
    fads,      \* the FileADS: StreamInfoMap (stream name -> size)
    fstreams,  \* the named data streams the file really has (name -> size)
    lastAds    \* the last FileADS call: operation, arguments, map before, filesystem
               \* operations made, removals that failed, error

cvars == <<chdr, cwire, cin, ctrace, cres>>
pvars == <<input, caller, wpos, rs, sink, bu, rpos, out, tuples, last, sought>>
kvars == <<bk, native, lastClose>>
gvars == <<so, mu, gr, hist>>
avars == <<fads, fstreams, lastAds>>
vars == <<chdr, cwire, cin, ctrace, cres,
          input, caller, wpos, rs, sink, bu, rpos, out, tuples, last, sought,
          bk, native, lastClose, so, mu, gr, hist, fads, fstreams, lastAds>>

----------------------------------------------------------------------------
\* Machine integers as sequences of 16-bit digits, least significant first

\* the n low digits of the integer x, two's complement for x < 0
\* (\div and % round towards minus infinity)
RECURSIVE Digits(_, _)
Digits(x, n) == IF n = 0 THEN <<>> ELSE <<x % 65536>> \o Digits(x \div 65536, n - 1)

\* uint32(x), int64(x), uint64(x) for an integer x
U32(x) == Digits(x, 2)
I64(x) == Digits(x, 4)
U64(x) == Digits(x, 4)

\* the sign of an int64
IsNeg(a) == a[Len(a)] >= 32768

\* a + b + c truncated to the width of a (c is the carry, 0 or 1)
RECURSIVE AddDigits(_, _, _)
AddDigits(a, b, c) ==
    IF Len(a) = 0 THEN <<>>
    ELSE <<(a[1] + b[1] + c) % 65536>>
            \o AddDigits(Tail(a), Tail(b), (a[1] + b[1] + c) \div 65536)

\* a + b and a - b of two int64, wrapping around as the machine does
I64Add(a, b) == AddDigits(a, b, 0)
I64Sub(a, b) == AddDigits(a, [i \in 1..Len(b) |-> 65535 - b[i]], 1)

\* a < b for two unsigned values of the same width
RECURSIVE UintLess(_, _)
UintLess(a, b) ==
    IF Len(a) = 0 THEN FALSE
    ELSE IF a[Len(a)] # b[Len(b)] THEN a[Len(a)] < b[Len(b)]
    ELSE UintLess(SubSeq(a, 1, Len(a) - 1), SubSeq(b, 1, Len(b) - 1))

\* a < b, a <= b and min(a, b) for two int64
I64Less(a, b) == IF IsNeg(a) # IsNeg(b) THEN IsNeg(a) ELSE UintLess(a, b)
I64LessEq(a, b) == ~I64Less(b, a)
I64Min(a, b) == IF I64Less(b, a) THEN b ELSE a

\* the integer an int64 stands for, for values of less than 32 bits
IntOf(a) ==
    IF IsNeg(a) THEN (a[1] - 65536) + 65536 * (a[2] - 65535) ELSE a[1] + 65536 * a[2]

\* the integer a uint32 stands for, for values of less than 31 bits
NatOf(a) == a[1] + 65536 * a[2]

----------------------------------------------------------------------------
\* Program constants

hdrSz == 20
offsetSz == 8

BackupInvalid == 0
BackupData == 1
BackupSecurityData == 3
BackupAlternateData == 4
BackupSparseBlock == 9

StreamNormalAttribute == 0
StreamSparseAttribute == 8

strmState == 0
dataState == 1

\* io.SeekStart / io.SeekCurrent
SeekStart == 0
SeekCurrent == 1

ErrEmptyADSName == "alternate data stream should have a name"
ErrSkipHeader == "tried to skip stream header"
ErrOddName == "length of the name is an odd number"
ErrEOF == "EOF"
ErrUnexpectedEOF == "unexpected EOF"
ErrEINVAL == "invalid argument"
ErrPanic == "panic: slice bounds out of range"
ERROR_SEEK == "ERROR_SEEK"

\* ':' and the ":$DATA" suffix, as code units
Colon == 58
DataSuffix == <<58, 36, 68, 65, 84, 65>>

----------------------------------------------------------------------------
\* Byte-level helpers

Min(a, b) == IF a < b THEN a ELSE b

\* s[from+1 .. to] in Go's s[from:to] convention (0-based, half open)
Slice(s, from, to) == SubSeq(s, from + 1, to)

\* the bytes of the machine integer a in memory (little endian)
RECURSIVE LEBytes(_)
LEBytes(a) == IF Len(a) = 0 THEN <<>> ELSE <<a[1] % 256, a[1] \div 256>> \o LEBytes(Tail(a))

\* the uint32 or uint64 held by the 4 or 8 bytes b (little endian)
RECURSIVE LEUint(_)
LEUint(b) == IF Len(b) < 2 THEN <<>> ELSE <<b[1] + 256 * b[2]>> \o LEUint(Tail(Tail(b)))

\* the int64 held by the 8 bytes b (little endian, two's complement)
LEInt(b) == LEUint(b)

\* the bytes of a UTF-16 code unit sequence, little endian
RECURSIVE U16Bytes(_)
U16Bytes(u) == IF Len(u) = 0 THEN <<>> ELSE <<u[1] % 256, u[1] \div 256>> \o U16Bytes(Tail(u))

\* the code units held by an even-length byte sequence
U16Units(b) == [i \in 1..(Len(b) \div 2) |-> b[2 * i - 1] + 256 * b[2 * i]]

\* windows.UTF16ToString: the code units before the first NUL
RECURSIVE UTF16ToString(_)
UTF16ToString(u) ==
    IF Len(u) = 0 \/ u[1] = 0 THEN <<>> ELSE <<u[1]>> \o UTF16ToString(Tail(u))

\* windows.UTF16FromString: NUL-terminated code units, EINVAL on an embedded NUL
UTF16FromString(s) ==
    IF \E i \in 1..Len(s) : s[i] = 0
    THEN [u |-> <<>>, err |-> ErrEINVAL]
    ELSE [u |-> s \o <<0>>, err |-> "nil"]

----------------------------------------------------------------------------
\* Name codec

\* The value standing for a run-time panic of extractStrmName (s[1:n-6] with n = 6).
PanicName == <<-1>>

extractStrmName(s) ==
    LET n == Len(s) IN
    IF n < 1 \/ s[1] # Colon THEN <<>>
    ELSE IF n < 6 \/ Slice(s, n - 6, n) # DataSuffix THEN <<>>
    ELSE IF 1 > n - 6 THEN PanicName
    ELSE Slice(s, 1, n - 6)

----------------------------------------------------------------------------
\* Record header codec

\* &BackupHeader{}
ZeroHdr == [Id |-> U32(0), Attributes |-> U32(0), Size |-> I64(0), Name |-> <<>>,
            SparseOffset |-> U64(0), fullSize |-> 0, active |-> FALSE]

\* io.ReadFull(r, buf) with len(buf) = n on a reader holding the bytes r:
\* the error and the number of bytes taken from the reader
ReadFull(r, n) ==
    IF Len(r) >= n THEN [err |-> "nil", n |-> n]
    ELSE IF Len(r) = 0 THEN [err |-> ErrEOF, n |-> 0]
    ELSE [err |-> ErrUnexpectedEOF, n |-> Len(r)]

\* io.ReadFull(r, buf) with a buf of the uint32 length size
ReadFullSized(r, size) ==
    IF UintLess(U32(Len(r)), size) THEN ReadFull(r, Len(r) + 1)
    ELSE ReadFull(r, NatOf(size))

\* fill of a named alternate stream without the check of an odd StreamNameSize
fillNameOddAccepted(h1, rest, nameSize) ==
    IF nameSize = U32(0) THEN [hdr |-> h1, err |-> ErrEmptyADSName, n |-> hdrSz]
    ELSE
    LET nm == ReadFullSized(rest, nameSize) IN
    IF nm.err # "nil" THEN [hdr |-> h1, err |-> nm.err, n |-> hdrSz + nm.n]
    ELSE
    LET name == extractStrmName(UTF16ToString(U16Units(Slice(rest, 0, nm.n)))) IN
    IF name = PanicName THEN [hdr |-> h1, err |-> ErrPanic, n |-> hdrSz + nm.n]
    ELSE [hdr |-> [h1 EXCEPT !.Name = name, !.fullSize = hdrSz + nm.n,
                             !.active = TRUE],
          err |-> "nil", n |-> hdrSz + nm.n]

\* hdr.fill(r), case BackupAlternateData: h1 holds the fixed fields, `rest` is what
\* the reader holds after them, nameSize is rawHdr.StreamNameSize
fillName(h1, rest, nameSize) ==
    IF nameSize = U32(0) THEN [hdr |-> h1, err |-> ErrEmptyADSName, n |-> hdrSz]
    ELSE IF nameSize[1] % 2 # 0 THEN [hdr |-> h1, err |-> ErrOddName, n |-> hdrSz]
    ELSE
    LET nm == ReadFullSized(rest, nameSize) IN
    IF nm.err # "nil" THEN [hdr |-> h1, err |-> nm.err, n |-> hdrSz + nm.n]
    ELSE
    LET name == extractStrmName(UTF16ToString(U16Units(Slice(rest, 0, nm.n)))) IN
    IF name = PanicName THEN [hdr |-> h1, err |-> ErrPanic, n |-> hdrSz + nm.n]
    ELSE [hdr |-> [h1 EXCEPT !.Name = name, !.fullSize = hdrSz + nm.n,
                             !.active = TRUE],
          err |-> "nil", n |-> hdrSz + nm.n]

\* hdr.fill(r), case BackupSparseBlock
fillSparse(h1, rest) ==
    LET off == ReadFull(rest, offsetSz) IN
    IF off.err # "nil" THEN [hdr |-> h1, err |-> off.err, n |-> hdrSz + off.n]
    ELSE [hdr |-> [h1 EXCEPT !.SparseOffset = LEUint(Slice(rest, 0, offsetSz)),
                             !.Size = I64Sub(h1.Size, I64(offsetSz)),
                             !.fullSize = hdrSz + offsetSz,
                             !.active = TRUE],
          err |-> "nil", n |-> hdrSz + offsetSz]

\* fill that keeps the Name and SparseOffset the header held before
fillKeepsStale(hdr, r) ==
    LET base == ReadFull(r, hdrSz) IN
    IF base.err # "nil" THEN [hdr |-> hdr, err |-> base.err, n |-> base.n]
    ELSE
    LET buf == Slice(r, 0, hdrSz)
        h1 == [hdr EXCEPT !.Id = LEUint(Slice(buf, 0, 4)),
                          !.Attributes = LEUint(Slice(buf, 4, 8)),
                          !.Size = LEInt(Slice(buf, 8, 16)),
                          !.fullSize = hdrSz]
        rest == Slice(r, hdrSz, Len(r))
    IN
    IF h1.Id = U32(BackupAlternateData) THEN fillName(h1, rest, LEUint(Slice(buf, 16, 20)))
    ELSE IF h1.Id = U32(BackupSparseBlock) THEN fillSparse(h1, rest)
    ELSE [hdr |-> [h1 EXCEPT !.active = TRUE], err |-> "nil", n |-> hdrSz]

\* hdr.fill(r): r is what the reader still holds.  Result: the header as the call
\* leaves it, the error, and the number of bytes taken from the reader.
fill(hdr, r) ==
    LET h0 == [hdr EXCEPT !.Name = <<>>, !.SparseOffset = U64(0)]
        base == ReadFull(r, hdrSz)
    IN
    IF base.err # "nil" THEN [hdr |-> h0, err |-> base.err, n |-> base.n]
    ELSE
    LET buf == Slice(r, 0, hdrSz)
        h1 == [h0 EXCEPT !.Id = LEUint(Slice(buf, 0, 4)),
                         !.Attributes = LEUint(Slice(buf, 4, 8)),
                         !.Size = LEInt(Slice(buf, 8, 16)),
                         !.fullSize = hdrSz]
        rest == Slice(r, hdrSz, Len(r))
    IN
    IF h1.Id = U32(BackupAlternateData) THEN fillName(h1, rest, LEUint(Slice(buf, 16, 20)))
    ELSE IF h1.Id = U32(BackupSparseBlock) THEN fillSparse(h1, rest)
    ELSE [hdr |-> [h1 EXCEPT !.active = TRUE], err |-> "nil", n |-> hdrSz]

\* the first hdrSz bytes of a w32api.WIN32_STREAM_ID value
RawHdrBytes(id, attrs, size, nameSize) ==
    LEBytes(id) \o LEBytes(attrs) \o LEBytes(size) \o LEBytes(nameSize)

\* hdr.ToBytes(): the bytes and the error
ToBytes(hdr) ==
    IF hdr.Id = U32(BackupAlternateData) THEN
        IF Len(hdr.Name) = 0 THEN [buf |-> <<>>, err |-> ErrEmptyADSName]
        ELSE
        LET u16Name == UTF16FromString(<<Colon>> \o hdr.Name \o DataSuffix) IN
        IF u16Name.err # "nil" THEN [buf |-> <<>>, err |-> u16Name.err]
        ELSE
        LET extraBuf == U16Bytes(Slice(u16Name.u, 0, Len(u16Name.u) - 1)) IN
        [buf |-> RawHdrBytes(hdr.Id, hdr.Attributes, hdr.Size, U32(Len(extraBuf)))
                    \o extraBuf,
         err |-> "nil"]
    ELSE IF hdr.Id = U32(BackupSparseBlock) THEN
        [buf |-> RawHdrBytes(hdr.Id, hdr.Attributes, hdr.Size, U32(0))
                    \o LEBytes(hdr.SparseOffset),
         err |-> "nil"]
    ELSE [buf |-> RawHdrBytes(hdr.Id, hdr.Attributes, hdr.Size, U32(0)), err |-> "nil"]

----------------------------------------------------------------------------
\* Transform hook and the injected byte source / sink

\* &BackupCtx{Hdr: &BackupHeader{}}
ZeroCtx == [Hdr |-> ZeroHdr, BytesLeft |-> I64(0), LastErr |-> "nil", state |-> strmState]

\* defaultHandler for an active header, hb being the result of ctx.Hdr.ToBytes()
handlerActive(hb, data, lastErr) ==
    IF hb.err # "nil" THEN [buf |-> <<>>, err |-> hb.err]
    ELSE [buf |-> hb.buf \o data, err |-> lastErr]

\* defaultHandler(ctx, data): the returned slice and error
defaultHandler(ctx, data) ==
    IF ctx.Hdr.active THEN handlerActive(ToBytes(ctx.Hdr), data, ctx.LastErr)
    ELSE [buf |-> data, err |-> ctx.LastErr]

\* defaultWriteCb(err)
defaultWriteCb(err) == err

\* r.Read(b) with len(b) = n > 0 on an in-memory source still holding the bytes r.
\* A "plain" source reports io.EOF only with 0 bytes (bytes.Reader); a "dataErr"
\* source reports io.EOF together with its last bytes, as io.Reader allows.
SrcRead(kind, r, n) ==
    IF Len(r) = 0 THEN [n |-> 0, err |-> ErrEOF]
    ELSE IF kind = "dataErr" /\ n >= Len(r) THEN [n |-> Len(r), err |-> ErrEOF]
    ELSE [n |-> Min(n, Len(r)), err |-> "nil"]

\* windows.ERROR_SUCCESS: what w32api.BackupSeek reports for a native failure that
\* set no error code
ERROR_SUCCESS == "ERROR_SUCCESS"
ERROR_ACCESS_DENIED == "ERROR_ACCESS_DENIED"
ERROR_INVALID_HANDLE == "ERROR_INVALID_HANDLE"

\* &os.PathError{Op: op, Path: path, Err: err}, by its message
PathError(op, path, err) == op \o " " \o path \o ": " \o err

\* the path of the file behind the source or sink
SrcPath == "f"

\* w32api.BackupSeek(h, offset, &ctx) on a stream with `remaining` payload bytes of
\* the current record ahead; `fails` says whether the call fails for a reason of its
\* own.  Result: the bytes sought, the error and how far the position really moves
\* (the caveats in the comment of w32api.BackupSeek).
NativeBackupSeek(offset, remaining, fails) ==
    IF fails THEN [n |-> 0, err |-> ERROR_ACCESS_DENIED, adv |-> 0]
    ELSE IF offset > remaining THEN [n |-> 0, err |-> ERROR_SEEK, adv |-> remaining]
    ELSE [n |-> offset, err |-> "nil", adv |-> offset]

\* seek that wraps ERROR_SEEK like any other native error
seekWrapsBoundary(path, whence, nat) ==
    IF whence # SeekCurrent THEN [n |-> 0, err |-> "unsupported whence", native |-> FALSE]
    ELSE IF nat.err = "nil"
    THEN IF nat.n = 0 THEN [n |-> 0, err |-> ErrEOF, native |-> TRUE]
         ELSE [n |-> nat.n, err |-> "nil", native |-> TRUE]
    ELSE IF nat.err = ERROR_SUCCESS THEN [n |-> nat.n, err |-> ErrSkipHeader, native |-> TRUE]
    ELSE [n |-> nat.n, err |-> PathError("BackupSeek", path, nat.err), native |-> TRUE]

\* s.seek(offset, whence) with s.path = path: nat is what w32api.BackupSeek returns
\* if it is called.  Result: the returned (n, err) and whether the native call was made.
seek(path, whence, nat) ==
    IF whence # SeekCurrent THEN [n |-> 0, err |-> "unsupported whence", native |-> FALSE]
    ELSE IF nat.err = "nil"
    THEN IF nat.n = 0 THEN [n |-> 0, err |-> ErrEOF, native |-> TRUE]
         ELSE [n |-> nat.n, err |-> "nil", native |-> TRUE]
    ELSE IF nat.err = ERROR_SUCCESS THEN [n |-> nat.n, err |-> ErrSkipHeader, native |-> TRUE]
    ELSE IF nat.err = ERROR_SEEK THEN [n |-> nat.n, err |-> ERROR_SEEK, native |-> TRUE]
    ELSE [n |-> nat.n, err |-> PathError("BackupSeek", path, nat.err), native |-> TRUE]

\* s.read(p) with s.path = path: nat is what w32api.BackupRead returns
read(path, nat) ==
    IF nat.err # "nil" THEN [n |-> nat.n, err |-> PathError("BackupRead", path, nat.err)]
    ELSE IF nat.n = 0 THEN [n |-> 0, err |-> ErrEOF]
    ELSE [n |-> nat.n, err |-> "nil"]

\* s.write(p) with s.path = path: nat is what w32api.BackupWrite returns
write(path, nat) ==
    IF nat.err # "nil" THEN [n |-> nat.n, err |-> PathError("BackupWrite", path, nat.err)]
    ELSE IF nat.n = 0 THEN [n |-> 0, err |-> ErrEOF]
    ELSE [n |-> nat.n, err |-> "nil"]

\* the answer of seek for the native outcome nat
SeekResult(whence, nat) ==
    [ret |-> seek(SrcPath, whence, nat).n, err |-> seek(SrcPath, whence, nat).err,
     adv |-> IF seek(SrcPath, whence, nat).native THEN nat.adv ELSE 0]

\* What the source or sink answers to Seek(offset, whence) when `remaining` payload
\* bytes of the current record lie ahead and `fails` says whether the native call
\* fails for a reason of its own: the count, the error and how far the position
\* really moves (bkupStruct.seek over BackupSeek).
SrcSeek(offset, whence, remaining, fails) ==
    SeekResult(whence, NativeBackupSeek(offset, remaining, fails))

----------------------------------------------------------------------------
\* Forward pipeline: BackupUtil

\* NewBackupUtil(r): r is the kind of source the object reads from
NewBackupUtil(r) == [r |-> r, ctx |-> ZeroCtx, leftData |-> <<>>]

\* handleRead that drops the bytes of buf that do not fit into p
handleReadCopyDropsRest(u, plen, buf, taken, pulled, at, calls) ==
    LET copied == Min(plen, Len(buf)) IN
    [u |-> u, n |-> copied, err |-> "nil", data |-> Slice(buf, 0, copied),
     taken |-> taken, pulled |-> pulled, at |-> at, calls |-> calls]

\* The end of u.handleRead(p): copy(p, buf), the rest of buf becomes leftData.
handleReadCopy(u, plen, buf, taken, pulled, at, calls) ==
    LET copied == Min(plen, Len(buf)) IN
    [u |-> [u EXCEPT !.leftData = IF copied < Len(buf) THEN Slice(buf, copied, Len(buf))
                                  ELSE @],
     n |-> copied, err |-> "nil", data |-> Slice(buf, 0, copied),
     taken |-> taken, pulled |-> pulled, at |-> at, calls |-> calls]

\* u.handleRead(p) after the source answered rd to Read(p[:readSize]) and the hook
\* answered h for the bytes `data` read
handleReadHooked(u, plen, data, rd, h, calls) ==
    IF h.err # "nil"
    THEN [u |-> [u EXCEPT !.ctx.LastErr = rd.err], n |-> 0, err |-> h.err, data |-> <<>>,
          taken |-> rd.n, pulled |-> data, at |-> "handler", calls |-> calls]
    ELSE handleReadCopy([u EXCEPT !.ctx.LastErr = rd.err,
                                  !.ctx.BytesLeft = I64Sub(@, I64(rd.n))],
                        plen, h.buf, rd.n, data, "payload", calls)

\* u.handleRead(p), readSize > 0: the source answered rd
handleReadPull(u, plen, r, readSize, rd) ==
    handleReadHooked(u, plen, Slice(r, 0, rd.n), rd,
                     defaultHandler([u.ctx EXCEPT !.LastErr = rd.err], Slice(r, 0, rd.n)),
                     <<<<"Read", readSize>>, <<"Handler", u.ctx.Hdr.active>>>>)

\* u.handleRead(p), readSize <= 0: hb is the result of u.ctx.Hdr.ToBytes()
handleReadHeader(u, plen, hb) ==
    IF hb.err # "nil"
    THEN [u |-> u, n |-> 0, err |-> hb.err, data |-> <<>>, taken |-> 0,
          pulled |-> <<>>, at |-> "encode", calls |-> <<>>]
    ELSE handleReadCopy(u, plen, hb.buf, 0, <<>>, "header", <<>>)

\* handleRead that does not reduce the read size for an active header
handleReadNoReduce(u, plen, r) ==
    LET readSize == I64Min(I64(plen), u.ctx.BytesLeft) IN
    IF I64Less(I64(0), readSize)
    THEN handleReadPull(u, plen, r, IntOf(readSize), SrcRead(u.r, r, IntOf(readSize)))
    ELSE handleReadHeader(u, plen, ToBytes(u.ctx.Hdr))

\* u.handleRead(p) with len(p) = plen, the source still holding the bytes r.
\* Result: the object, the returned (n, err), the bytes copied into p, the number of
\* source bytes taken, the payload bytes pulled, the place the call returned from and
\* the source/hook calls made.
handleRead(u, plen, r) ==
    LET readSize0 == I64Min(I64(plen), u.ctx.BytesLeft)
        readSize == IF u.ctx.Hdr.active /\ I64Less(I64(plen), u.ctx.BytesLeft)
                    THEN I64Sub(readSize0, I64(u.ctx.Hdr.fullSize)) ELSE readSize0
    IN
    IF I64Less(I64(0), readSize)
    THEN handleReadPull(u, plen, r, IntOf(readSize), SrcRead(u.r, r, IntOf(readSize)))
    ELSE handleReadHeader(u, plen, ToBytes(u.ctx.Hdr))

RECURSIVE ReadLoop(_, _, _, _, _)

\* u.Read(p), state strmState: f is the result of u.ctx.Hdr.fill(u.r)
readDecoded(u, plen, r, taken, hdrs, f) ==
    IF f.err # "nil"
    THEN [u |-> [u EXCEPT !.ctx.Hdr = f.hdr], n |-> 0, err |-> f.err, data |-> <<>>,
          taken |-> taken + f.n, pulled |-> <<>>, hdrs |-> hdrs, at |-> "fill",
          calls |-> <<<<"Read", hdrSz>>>>]
    ELSE ReadLoop([u EXCEPT !.ctx.Hdr = f.hdr, !.ctx.state = dataState,
                            !.ctx.BytesLeft = f.hdr.Size],
                  plen, r, taken + f.n, Append(hdrs, f.hdr))

\* u.Read(p), state dataState with bytes left: hr is the result of u.handleRead(p)
readHandled(taken, hdrs, hr) ==
    [u |-> [hr.u EXCEPT !.ctx.Hdr.active = FALSE], n |-> hr.n, err |-> hr.err,
     data |-> hr.data, taken |-> taken + hr.taken, pulled |-> hr.pulled,
     hdrs |-> hdrs, at |-> hr.at,
     calls |-> (IF taken > 0 THEN <<<<"Read", hdrSz>>>> ELSE <<>>) \o hr.calls]

\* The state loop of u.Read(p): `taken` source bytes were consumed and the headers
\* `hdrs` decoded earlier in this call.
ReadLoop(u, plen, r, taken, hdrs) ==
    IF u.ctx.state = strmState
    THEN readDecoded(u, plen, r, taken, hdrs, fill(u.ctx.Hdr, Slice(r, taken, Len(r))))
    ELSE IF u.ctx.BytesLeft = I64(0)
    THEN ReadLoop([u EXCEPT !.ctx.state = strmState], plen, r, taken, hdrs)
    ELSE readHandled(taken, hdrs, handleRead(u, plen, Slice(r, taken, Len(r))))

\* Read that forgets the leftover bytes that do not fit into p
ReadDropsLeftover(u, plen, r) ==
    IF Len(u.leftData) # 0 THEN
        LET copied == Min(plen, Len(u.leftData)) IN
        [u |-> [u EXCEPT !.leftData = <<>>],
         n |-> copied, err |-> "nil", data |-> Slice(u.leftData, 0, copied),
         taken |-> 0, pulled |-> <<>>, hdrs |-> <<>>, at |-> "leftover", calls |-> <<>>]
    ELSE ReadLoop(u, plen, r, 0, <<>>)

\* u.Read(p) with len(p) = plen, the source still holding the bytes r
BackupUtil_Read(u, plen, r) ==
    IF Len(u.leftData) # 0 THEN
        LET copied == Min(plen, Len(u.leftData)) IN
        [u |-> [u EXCEPT !.leftData = Slice(u.leftData, copied, Len(u.leftData))],
         n |-> copied, err |-> "nil", data |-> Slice(u.leftData, 0, copied),
         taken |-> 0, pulled |-> <<>>, hdrs |-> <<>>, at |-> "leftover", calls |-> <<>>]
    ELSE ReadLoop(u, plen, r, 0, <<>>)

\* Seek that forwards to the source whatever the state is
SeekInAnyState(u, offset, whence, remaining, fails) ==
    LET sk == SrcSeek(offset, whence, remaining, fails)
        left == I64Sub(u.ctx.BytesLeft, I64(sk.ret))
        calls == <<<<"Seek", offset, whence, sk.ret, sk.err>>>>
    IN
    IF sk.err = "nil"
    THEN [u |-> [u EXCEPT !.ctx.LastErr = sk.err, !.ctx.BytesLeft = left],
          n |-> I64(sk.ret), err |-> "nil", calls |-> calls, adv |-> sk.adv]
    ELSE IF sk.err = ERROR_SEEK
    THEN [u |-> [u EXCEPT !.ctx.LastErr = sk.err, !.ctx.BytesLeft = I64(0),
                          !.ctx.state = strmState],
          n |-> left, err |-> "nil", calls |-> calls, adv |-> sk.adv]
    ELSE [u |-> [u EXCEPT !.ctx.LastErr = sk.err, !.ctx.BytesLeft = left],
          n |-> I64(sk.ret), err |-> sk.err, calls |-> calls, adv |-> sk.adv]

\* Seek that does not deduct the bytes the source moved from BytesLeft
SeekForgetsMoved(u, offset, whence, remaining, fails) ==
    IF u.ctx.state = strmState
    THEN [u |-> u, n |-> I64(0), err |-> ErrSkipHeader, calls |-> <<>>, adv |-> 0]
    ELSE
    LET sk == SrcSeek(offset, whence, remaining, fails)
        calls == <<<<"Seek", offset, whence, sk.ret, sk.err>>>>
    IN
    IF sk.err = "nil"
    THEN [u |-> [u EXCEPT !.ctx.LastErr = sk.err],
          n |-> I64(sk.ret), err |-> "nil", calls |-> calls, adv |-> sk.adv]
    ELSE IF sk.err = ERROR_SEEK
    THEN [u |-> [u EXCEPT !.ctx.LastErr = sk.err, !.ctx.BytesLeft = I64(0),
                          !.ctx.state = strmState],
          n |-> u.ctx.BytesLeft, err |-> "nil", calls |-> calls, adv |-> sk.adv]
    ELSE [u |-> [u EXCEPT !.ctx.LastErr = sk.err],
          n |-> I64(sk.ret), err |-> sk.err, calls |-> calls, adv |-> sk.adv]

\* u.Seek(offset, whence); `remaining` and `fails` describe the source (see SrcSeek).
\* Result: the object, the returned (n, err), the calls made on the source, each with
\* the source's answer <<"Seek", offset, whence, ret, err>>, and how far the source
\* position moved.
BackupUtil_Seek(u, offset, whence, remaining, fails) ==
    IF u.ctx.state = strmState
    THEN [u |-> u, n |-> I64(0), err |-> ErrSkipHeader, calls |-> <<>>, adv |-> 0]
    ELSE
    LET sk == SrcSeek(offset, whence, remaining, fails)
        left == I64Sub(u.ctx.BytesLeft, I64(sk.ret))
        calls == <<<<"Seek", offset, whence, sk.ret, sk.err>>>>
    IN
    IF sk.err = "nil"
    THEN [u |-> [u EXCEPT !.ctx.LastErr = sk.err, !.ctx.BytesLeft = left],
          n |-> I64(sk.ret), err |-> "nil", calls |-> calls, adv |-> sk.adv]
    ELSE IF sk.err = ERROR_SEEK
    THEN [u |-> [u EXCEPT !.ctx.LastErr = sk.err, !.ctx.BytesLeft = I64(0),
                          !.ctx.state = strmState],
          n |-> left, err |-> "nil", calls |-> calls, adv |-> sk.adv]
    ELSE [u |-> [u EXCEPT !.ctx.LastErr = sk.err, !.ctx.BytesLeft = left],
          n |-> I64(sk.ret), err |-> sk.err, calls |-> calls, adv |-> sk.adv]

\* what the Close of a source or sink may return
ErrClosed == "file already closed"
CloseErrs == {"nil", ErrClosed}

\* u.Close(): closeErr is what u.r.Close() returns.  Result: the object, the
\* returned error and the call made on the source.
BackupUtil_Close(u, closeErr) ==
    [u |-> [u EXCEPT !.leftData = <<>>], err |-> closeErr,
     calls |-> <<<<"Close", closeErr>>>>]

----------------------------------------------------------------------------
\* Reverse pipeline: RestoreUtil

\* NewRestoreUtil(w): w is the sink, its kind and the room it has left
NewRestoreUtil(w) == [w |-> w, ctx |-> ZeroCtx, hdrData |-> <<>>]

\* the error of a sink that has no room left
ErrSinkFull == "sink full"

\* the most bytes a "short" or "full" sink accepts in one call
ShortWrite == 16

\* the room a "full" sink starts with
SinkRoom == 40

\* w.Write(buf) on the sink w: the count, the error and the sink afterwards.  A
\* "whole" sink accepts everything (bytes.Buffer), a "short" sink at most ShortWrite
\* bytes per call without an error, a "zero" sink nothing without an error, and a
\* "full" sink at most ShortWrite bytes per call until its room is used up, from
\* where on it reports an error with the bytes that still fitted.
SinkWrite(w, buf) ==
    IF w.kind = "whole" THEN [n |-> Len(buf), err |-> "nil", w |-> w]
    ELSE IF w.kind = "short" THEN [n |-> Min(Len(buf), ShortWrite), err |-> "nil", w |-> w]
    ELSE IF w.kind = "zero" THEN [n |-> 0, err |-> "nil", w |-> w]
    ELSE [n |-> Min(Min(Len(buf), ShortWrite), w.room),
          err |-> IF w.room < Min(Len(buf), ShortWrite) THEN ErrSinkFull ELSE "nil",
          w |-> [w EXCEPT !.room = @ - Min(Min(Len(buf), ShortWrite), w.room)]]

RECURSIVE writeRetry(_, _, _, _, _)

\* a retry loop that gives up after the first attempt the sink accepted
writeTriedGivesUp(w, buf, emitted, calls, sw) ==
    [err |-> defaultWriteCb(sw.err), lastErr |-> sw.err,
     emitted |-> emitted \o Slice(buf, 0, sw.n),
     calls |-> calls \o << <<"Write", Len(buf), sw.n>>, <<"WriteCb", sw.err>> >>,
     w |-> sw.w, hang |-> FALSE]

\* One round of the retry loop of handleWrite: the sink w answered sw to Write(buf),
\* and WriteCb is asked about the error.  A round that leaves buffer and sink as they
\* were repeats for ever: hang.
writeTried(w, buf, emitted, calls, sw) ==
    IF defaultWriteCb(sw.err) # "nil"
    THEN [err |-> defaultWriteCb(sw.err), lastErr |-> sw.err,
          emitted |-> emitted \o Slice(buf, 0, sw.n),
          calls |-> calls \o << <<"Write", Len(buf), sw.n>>, <<"WriteCb", sw.err>> >>,
          w |-> sw.w, hang |-> FALSE]
    ELSE IF sw.n = 0 /\ sw.w = w
    THEN [err |-> "nil", lastErr |-> sw.err, emitted |-> emitted,
          calls |-> calls \o << <<"Write", Len(buf), sw.n>>, <<"WriteCb", sw.err>> >>,
          w |-> sw.w, hang |-> TRUE]
    ELSE writeRetry(sw.w, Slice(buf, sw.n, Len(buf)), sw.err,
                    emitted \o Slice(buf, 0, sw.n),
                    calls \o << <<"Write", Len(buf), sw.n>>, <<"WriteCb", sw.err>> >>)

\* The retry loop of handleWrite on the sink w: buf is what is still to be written,
\* `emitted` what the sink accepted so far in this call.
writeRetry(w, buf, lastErr, emitted, calls) ==
    IF Len(buf) = 0
    THEN [err |-> "nil", lastErr |-> lastErr, emitted |-> emitted, calls |-> calls,
          w |-> w, hang |-> FALSE]
    ELSE writeTried(w, buf, emitted, calls, SinkWrite(w, buf))

\* handleWrite that deducts the payload length also when the write loop failed
handleWriteDoneCounts(r, pLen, wr) ==
    [rs |-> [r EXCEPT !.ctx.LastErr = wr.lastErr, !.w = wr.w,
                      !.ctx.BytesLeft = I64Sub(@, I64(pLen))],
     n |-> IF wr.err # "nil" \/ wr.hang THEN 0
           ELSE (IF r.ctx.Hdr.active THEN r.ctx.Hdr.fullSize ELSE 0) + pLen,
     err |-> wr.err, emitted |-> wr.emitted,
     at |-> IF wr.hang THEN "retry" ELSE IF wr.err # "nil" THEN "writecb" ELSE "payload",
     calls |-> wr.calls, hang |-> wr.hang]

\* rs.handleWrite(p) after the retry loop ended with wr
handleWriteDone(r, pLen, wr) ==
    IF wr.hang
    THEN [rs |-> [r EXCEPT !.ctx.LastErr = wr.lastErr, !.w = wr.w], n |-> 0, err |-> "nil",
          emitted |-> wr.emitted, at |-> "retry", calls |-> wr.calls, hang |-> TRUE]
    ELSE IF wr.err # "nil"
    THEN [rs |-> [r EXCEPT !.ctx.LastErr = wr.lastErr, !.w = wr.w], n |-> 0, err |-> wr.err,
          emitted |-> wr.emitted, at |-> "writecb", calls |-> wr.calls, hang |-> FALSE]
    ELSE [rs |-> [r EXCEPT !.ctx.LastErr = wr.lastErr, !.w = wr.w,
                           !.ctx.BytesLeft = I64Sub(@, I64(pLen))],
          n |-> (IF r.ctx.Hdr.active THEN r.ctx.Hdr.fullSize ELSE 0) + pLen,
          err |-> "nil", emitted |-> wr.emitted, at |-> "payload", calls |-> wr.calls,
          hang |-> FALSE]

\* rs.handleWrite(p) after the hook answered h
handleWriteHooked(r, pLen, h) ==
    IF h.err # "nil"
    THEN [rs |-> r, n |-> 0, err |-> h.err, emitted |-> <<>>, at |-> "handler",
          calls |-> <<<<"Handler", r.ctx.Hdr.active>>>>, hang |-> FALSE]
    ELSE handleWriteDone(r, pLen,
            writeRetry(r.w, h.buf, r.ctx.LastErr, <<>>,
                       <<<<"Handler", r.ctx.Hdr.active>>>>))

\* rs.handleWrite(p).  Result: the object, the returned (n, err), the bytes the sink
\* received, the place the call returned from and the hook/sink calls made.
handleWrite(r, p) == handleWriteHooked(r, Len(p), defaultHandler(r.ctx, p))

RECURSIVE WriteLoop(_)

\* what rs.Write hands back when it leaves the loop l with object r
writeResult(l, r, n, err, outcome, at) ==
    [rs |-> r, n |-> n, err |-> err, outcome |-> outcome, at |-> at,
     emitted |-> l.emitted, calls |-> l.calls, hdrs |-> l.hdrs]

\* Write that does not retain the input of a call that leaves the header incomplete
writeDecodedForgets(l, key, hdrData, f) ==
    LET r1 == [l.rs EXCEPT !.hdrData = hdrData, !.ctx.Hdr = f.hdr] IN
    IF f.err = ErrUnexpectedEOF \/ f.err = ErrEOF
    THEN writeResult(l, [l.rs EXCEPT !.ctx.Hdr = f.hdr], l.inputLen, "nil", "return", "need")
    ELSE IF f.err = ErrPanic THEN writeResult(l, r1, 0, f.err, "panic", "fill")
    ELSE IF f.err # "nil" THEN writeResult(l, r1, 0, f.err, "return", "fill")
    ELSE WriteLoop([l EXCEPT
            !.startOffset = Min(f.hdr.fullSize, f.hdr.fullSize - (Len(hdrData) - l.inputLen)),
            !.rs = [r1 EXCEPT !.hdrData = <<>>, !.ctx.state = dataState,
                              !.ctx.BytesLeft = f.hdr.Size],
            !.hdrs = Append(l.hdrs, f.hdr),
            !.seen = l.seen \cup {key}])

\* rs.Write, state strmState: f is the result of rs.ctx.Hdr.fill on hdrData
writeDecoded(l, key, hdrData, f) ==
    LET r1 == [l.rs EXCEPT !.hdrData = hdrData, !.ctx.Hdr = f.hdr] IN
    IF f.err = ErrUnexpectedEOF \/ f.err = ErrEOF
    THEN writeResult(l, r1, l.inputLen, "nil", "return", "need")
    ELSE IF f.err = ErrPanic THEN writeResult(l, r1, 0, f.err, "panic", "fill")
    ELSE IF f.err # "nil" THEN writeResult(l, r1, 0, f.err, "return", "fill")
    ELSE WriteLoop([l EXCEPT
            !.startOffset = Min(f.hdr.fullSize, f.hdr.fullSize - (Len(hdrData) - l.inputLen)),
            !.rs = [r1 EXCEPT !.hdrData = <<>>, !.ctx.state = dataState,
                              !.ctx.BytesLeft = f.hdr.Size],
            !.hdrs = Append(l.hdrs, f.hdr),
            !.seen = l.seen \cup {key}])

\* Write that leaves the header active after a payload step
writeHandledKeepsActive(l, key, endOffset, hw) ==
    IF hw.hang \/ hw.err # "nil"
    THEN [rs |-> hw.rs, n |-> IF hw.hang THEN 0 ELSE l.consumed, err |-> hw.err,
          outcome |-> IF hw.hang THEN "hang" ELSE "return",
          at |-> hw.at, emitted |-> l.emitted \o hw.emitted,
          calls |-> l.calls \o hw.calls, hdrs |-> l.hdrs]
    ELSE WriteLoop([l EXCEPT
            !.consumed = l.consumed + hw.n,
            !.p = IF hw.n < Len(l.p) THEN Slice(l.p, hw.n, Len(l.p)) ELSE l.p,
            !.rs = IF ~(hw.n < Len(l.p)) /\ endOffset < Len(l.p)
                   THEN [hw.rs EXCEPT !.hdrData = Slice(l.p, endOffset, Len(l.p))]
                   ELSE hw.rs,
            !.emitted = l.emitted \o hw.emitted,
            !.calls = l.calls \o hw.calls,
            !.seen = l.seen \cup {key}])

\* rs.Write, state dataState with bytes left: hw is the result of
\* rs.handleWrite(p[startOffset:endOffset])
writeHandled(l, key, endOffset, hw) ==
    IF hw.hang
    THEN [rs |-> hw.rs, n |-> 0, err |-> "nil", outcome |-> "hang",
          at |-> hw.at, emitted |-> l.emitted \o hw.emitted,
          calls |-> l.calls \o hw.calls, hdrs |-> l.hdrs]
    ELSE IF hw.err # "nil"
    THEN [rs |-> hw.rs, n |-> l.consumed, err |-> hw.err, outcome |-> "return",
          at |-> hw.at, emitted |-> l.emitted \o hw.emitted,
          calls |-> l.calls \o hw.calls, hdrs |-> l.hdrs]
    ELSE WriteLoop([l EXCEPT
            !.consumed = l.consumed + hw.n,
            !.p = IF hw.n < Len(l.p) THEN Slice(l.p, hw.n, Len(l.p)) ELSE l.p,
            !.rs = IF ~(hw.n < Len(l.p)) /\ endOffset < Len(l.p)
                   THEN [hw.rs EXCEPT !.ctx.Hdr.active = FALSE,
                                      !.hdrData = Slice(l.p, endOffset, Len(l.p))]
                   ELSE [hw.rs EXCEPT !.ctx.Hdr.active = FALSE],
            !.emitted = l.emitted \o hw.emitted,
            !.calls = l.calls \o hw.calls,
            !.seen = l.seen \cup {key}])

\* rs.Write, state dataState with bytes left: the slice p[startOffset:endOffset],
\* endOffset being min(len(p), startOffset+int(rs.ctx.BytesLeft)) as an int64
writeSlice(l, key, endOffset) ==
    IF l.startOffset < 0 \/ I64Less(endOffset, I64(l.startOffset))
            \/ l.startOffset > Len(l.p)
    THEN writeResult(l, l.rs, 0, ErrPanic, "panic", "slice")
    ELSE writeHandled(l, key, IntOf(endOffset),
                      handleWrite(l.rs, Slice(l.p, l.startOffset, IntOf(endOffset))))

\* Write that returns the count of consumed bytes without limiting it to len(p)
WriteLoopNoMin(l) ==
    IF ~(l.consumed < l.inputLen)
    THEN writeResult(l, l.rs, l.consumed, "nil", "return", "end")
    ELSE IF <<l.rs, l.p, l.startOffset, l.consumed>> \in l.seen
    THEN writeResult(l, l.rs, 0, "nil", "hang", "loop")
    ELSE IF l.rs.ctx.state = strmState
    THEN writeDecoded(l, <<l.rs, l.p, l.startOffset, l.consumed>>, l.rs.hdrData \o l.p,
                      fill(l.rs.ctx.Hdr, l.rs.hdrData \o l.p))
    ELSE IF l.rs.ctx.BytesLeft = I64(0)
    THEN WriteLoop([l EXCEPT !.rs.ctx.state = strmState,
                             !.seen = l.seen \cup {<<l.rs, l.p, l.startOffset, l.consumed>>}])
    ELSE writeSlice(l, <<l.rs, l.p, l.startOffset, l.consumed>>,
                    I64Min(I64(Len(l.p)), I64Add(I64(l.startOffset), l.rs.ctx.BytesLeft)))

\* The loop of rs.Write: l holds the object and the locals of the call (p,
\* startOffset, consumed, inputLen), what the sink received so far, the calls made,
\* the headers decoded and the loop states already seen in this call.  A loop state
\* seen twice means the loop never ends: outcome "hang".
WriteLoop(l) ==
    IF ~(l.consumed < l.inputLen)
    THEN writeResult(l, l.rs, Min(l.consumed, l.inputLen), "nil", "return", "end")
    ELSE IF <<l.rs, l.p, l.startOffset, l.consumed>> \in l.seen
    THEN writeResult(l, l.rs, 0, "nil", "hang", "loop")
    ELSE IF l.rs.ctx.state = strmState
    THEN writeDecoded(l, <<l.rs, l.p, l.startOffset, l.consumed>>, l.rs.hdrData \o l.p,
                      fill(l.rs.ctx.Hdr, l.rs.hdrData \o l.p))
    ELSE IF l.rs.ctx.BytesLeft = I64(0)
    THEN WriteLoop([l EXCEPT !.rs.ctx.state = strmState,
                             !.seen = l.seen \cup {<<l.rs, l.p, l.startOffset, l.consumed>>}])
    ELSE writeSlice(l, <<l.rs, l.p, l.startOffset, l.consumed>>,
                    I64Min(I64(Len(l.p)), I64Add(I64(l.startOffset), l.rs.ctx.BytesLeft)))

\* rs.Write(p).  Result: the object, the returned (n, err), whether the call returned,
\* panicked or never ends, the bytes the sink received, the calls made on hook and
\* sink, and the headers decoded.
RestoreUtil_Write(r, p) ==
    WriteLoop([rs |-> r, p |-> p, startOffset |-> 0, consumed |-> 0, inputLen |-> Len(p),
               emitted |-> <<>>, calls |-> <<>>, hdrs |-> <<>>, seen |-> {}])

\* Seek that stays in dataState when the sink reports the end of the record
SeekBoundaryStays(r, offset, whence, remaining, fails) ==
    IF r.ctx.state = strmState
    THEN [rs |-> r, n |-> I64(0), err |-> ErrSkipHeader, calls |-> <<>>, adv |-> 0]
    ELSE
    LET sk == SrcSeek(offset, whence, remaining, fails)
        left == I64Sub(r.ctx.BytesLeft, I64(sk.ret))
        calls == <<<<"Seek", offset, whence, sk.ret, sk.err>>>>
    IN
    IF sk.err = "nil"
    THEN [rs |-> [r EXCEPT !.ctx.LastErr = sk.err, !.ctx.BytesLeft = left],
          n |-> I64(sk.ret), err |-> "nil", calls |-> calls, adv |-> sk.adv]
    ELSE IF sk.err = ERROR_SEEK
    THEN [rs |-> [r EXCEPT !.ctx.LastErr = sk.err, !.ctx.BytesLeft = I64(0)],
          n |-> left, err |-> "nil", calls |-> calls, adv |-> sk.adv]
    ELSE [rs |-> [r EXCEPT !.ctx.LastErr = sk.err, !.ctx.BytesLeft = left],
          n |-> I64(sk.ret), err |-> sk.err, calls |-> calls, adv |-> sk.adv]

\* rs.Seek(offset, whence); `remaining` and `fails` describe the sink (see SrcSeek)
RestoreUtil_Seek(r, offset, whence, remaining, fails) ==
    IF r.ctx.state = strmState
    THEN [rs |-> r, n |-> I64(0), err |-> ErrSkipHeader, calls |-> <<>>, adv |-> 0]
    ELSE
    LET sk == SrcSeek(offset, whence, remaining, fails)
        left == I64Sub(r.ctx.BytesLeft, I64(sk.ret))
        calls == <<<<"Seek", offset, whence, sk.ret, sk.err>>>>
    IN
    IF sk.err = "nil"
    THEN [rs |-> [r EXCEPT !.ctx.LastErr = sk.err, !.ctx.BytesLeft = left],
          n |-> I64(sk.ret), err |-> "nil", calls |-> calls, adv |-> sk.adv]
    ELSE IF sk.err = ERROR_SEEK
    THEN [rs |-> [r EXCEPT !.ctx.LastErr = sk.err, !.ctx.BytesLeft = I64(0),
                           !.ctx.state = strmState],
          n |-> left, err |-> "nil", calls |-> calls, adv |-> sk.adv]
    ELSE [rs |-> [r EXCEPT !.ctx.LastErr = sk.err, !.ctx.BytesLeft = left],
          n |-> I64(sk.ret), err |-> sk.err, calls |-> calls, adv |-> sk.adv]

\* rs.Close(): closeErr is what rs.w.Close() returns
RestoreUtil_Close(r, closeErr) ==
    [rs |-> [r EXCEPT !.hdrData = <<>>], err |-> closeErr,
     calls |-> <<<<"Close", closeErr>>>>]

----------------------------------------------------------------------------
\* Inputs

\* largest payload length of a generated record
MaxPayload == 3

\* payload lengths of the generated records
PayloadSizes == {0, 1, MaxPayload}

\* the caller stops reading once it has received this many bytes more than the
\* source holds
MaxExcess == 30

\* the first hdrSz bytes of a record with the given fields
WireHdr(id, attrs, size, nameSize) == RawHdrBytes(id, attrs, I64(size), U32(nameSize))

\* 2^32 and the least int64, the greatest uint32 and uint64
TwoTo32 == <<0, 0, 1, 0>>
MinInt64 == <<0, 0, 0, 32768>>
MaxUint32 == <<65535, 65535>>
MaxUint64 == <<65535, 65535, 65535, 65535>>

\* the n payload bytes of the i-th record of a stream
PayloadBytes(i, n) == [j \in 1..n |-> 128 + 16 * i + j]

\* A record on the wire (WIN32_STREAM_ID followed by name or sparse offset, then the
\* payload); the Size field of a sparse block counts the offset field.
WireRecord(rec) ==
    IF rec.Id = U32(BackupAlternateData) THEN
        LET nm == U16Bytes(<<Colon>> \o rec.Name \o DataSuffix) IN
        WireHdr(rec.Id, rec.Attributes, Len(rec.Payload), Len(nm)) \o nm \o rec.Payload
    ELSE IF rec.Id = U32(BackupSparseBlock) THEN
        WireHdr(rec.Id, rec.Attributes, Len(rec.Payload) + offsetSz, 0)
            \o LEBytes(rec.SparseOffset) \o rec.Payload
    ELSE WireHdr(rec.Id, rec.Attributes, Len(rec.Payload), 0) \o rec.Payload

RECURSIVE WireStream(_)
WireStream(recs) ==
    IF Len(recs) = 0 THEN <<>> ELSE WireRecord(recs[1]) \o WireStream(Tail(recs))

\* "a" and "ads1"
NameA == <<97>>
NameAds1 == <<97, 100, 115, 49>>

\* the i-th record of a generated stream, of kind "D", "A" or "S", with n payload bytes
MkRecord(kind, i, n) ==
    IF kind = "A" THEN [Id |-> U32(BackupAlternateData), Attributes |-> U32(StreamNormalAttribute),
                        Name |-> NameA, SparseOffset |-> U64(0), Payload |-> PayloadBytes(i, n)]
    ELSE IF kind = "S" THEN [Id |-> U32(BackupSparseBlock), Attributes |-> U32(StreamSparseAttribute),
                             Name |-> <<>>, SparseOffset |-> U64(4096 + i),
                             Payload |-> PayloadBytes(i, n)]
    ELSE [Id |-> U32(BackupData), Attributes |-> U32(StreamNormalAttribute),
          Name |-> <<>>, SparseOffset |-> U64(0), Payload |-> PayloadBytes(i, n)]

\* the record kinds of the generated streams
Shapes == {<<"D">>, <<"A">>, <<"S">>, <<"A", "D">>, <<"D", "S">>}

GoodRecs ==
    {[i \in 1..Len(sh) |-> MkRecord(sh[i], i, sz[i])] :
        sh \in {x \in Shapes : Len(x) = 1}, sz \in [1..1 -> PayloadSizes]}
    \cup
    {[i \in 1..Len(sh) |-> MkRecord(sh[i], i, sz[i])] :
        sh \in {x \in Shapes : Len(x) = 2}, sz \in [1..2 -> PayloadSizes]}

\* Ends of streams that are not well-formed records: named-alternate-stream headers
\* with StreamNameSize 3 and 0 and with the name "::$DATA", a sparse-block header
\* whose Size field is smaller than the offset field, a header with a negative Size
\* field, a data record whose payload stops after 1 or 0 of MaxPayload bytes, and
\* streams that stop inside the fixed header fields, before the name and before the
\* sparse offset; and a data record whose Size field is 2^32
BadTails == {
    WireHdr(U32(BackupAlternateData), U32(StreamNormalAttribute), 1, 3) \o <<58, 0, 97>> \o <<201>>,
    WireHdr(U32(BackupAlternateData), U32(StreamNormalAttribute), 1, 0) \o <<201>>,
    WireHdr(U32(BackupAlternateData), U32(StreamNormalAttribute), 1, 14) \o U16Bytes(<<Colon>> \o DataSuffix) \o <<201>>,
    WireHdr(U32(BackupSparseBlock), U32(StreamSparseAttribute), 3, 0) \o LEBytes(U64(4096))
        \o <<201>>,
    WireHdr(U32(BackupData), U32(StreamNormalAttribute), -1, 0) \o <<201>>,
    RawHdrBytes(U32(BackupData), MaxUint32, TwoTo32, U32(0)) \o <<201>>,
    WireHdr(U32(BackupData), U32(StreamNormalAttribute), MaxPayload, 0) \o <<201>>,
    WireHdr(U32(BackupData), U32(StreamNormalAttribute), MaxPayload, 0),
    Slice(WireHdr(U32(BackupData), U32(StreamNormalAttribute), 1, 0), 0, 5),
    WireHdr(U32(BackupAlternateData), U32(StreamNormalAttribute), 1, 4),
    WireHdr(U32(BackupSparseBlock), U32(StreamSparseAttribute), 9, 0) }

BadPrefixes == {<<>>, <<MkRecord("D", 1, 1)>>}

GoodInputs == {[recs |-> r, bytes |-> WireStream(r), good |-> TRUE] : r \in GoodRecs}
BadInputs == {[recs |-> r, bytes |-> WireStream(r) \o t, good |-> FALSE] :
                r \in BadPrefixes, t \in BadTails}

\* chunk lengths the caller passes to Write, buffer lengths it passes to Read, and
\* the offsets it seeks by
WriteSizes == {5, 24, 40}
ReadSizes == {7, 20, 64}
SeekOffsets == {1, 3}

\* The scenario of the specification: an alternate stream "ads1" with 10 payload
\* bytes, then a data stream with 5, written in 3-byte chunks, read with 7-byte buffers.
ScenarioRecs == <<
    [Id |-> U32(BackupAlternateData), Attributes |-> U32(StreamNormalAttribute), Name |-> NameAds1,
     SparseOffset |-> U64(0), Payload |-> PayloadBytes(1, 10)],
    [Id |-> U32(BackupData), Attributes |-> U32(StreamNormalAttribute), Name |-> <<>>,
     SparseOffset |-> U64(0), Payload |-> PayloadBytes(2, 5)] >>
ScenarioInput == [recs |-> ScenarioRecs, bytes |-> WireStream(ScenarioRecs), good |-> TRUE]
ScenarioCaller == [mode |-> "rt", w |-> {3}, r |-> {7}, seek |-> FALSE]

\* A data stream whose payload is longer than the buffers it is read with, one of
\* them shorter and one longer than the encoded header
LargePayload == 30
LargeRecs == <<
    [Id |-> U32(BackupData), Attributes |-> U32(StreamNormalAttribute), Name |-> <<>>,
     SparseOffset |-> U64(0), Payload |-> PayloadBytes(1, LargePayload)] >>
LargeInput == [recs |-> LargeRecs, bytes |-> WireStream(LargeRecs), good |-> TRUE]
LargeCaller == [mode |-> "fwd", w |-> {}, r |-> {7, 24}, seek |-> FALSE]

\* A data stream longer than the buffers followed by a short one, for callers that
\* seek inside the first record and over its end
SeekRecs == <<
    [Id |-> U32(BackupData), Attributes |-> U32(StreamNormalAttribute), Name |-> <<>>,
     SparseOffset |-> U64(0), Payload |-> PayloadBytes(1, LargePayload)],
    [Id |-> U32(BackupData), Attributes |-> U32(StreamNormalAttribute), Name |-> <<>>,
     SparseOffset |-> U64(0), Payload |-> PayloadBytes(2, 1)] >>
SeekInput == [recs |-> SeekRecs, bytes |-> WireStream(SeekRecs), good |-> TRUE]
SeekCallers == {[mode |-> "fwd", w |-> {}, r |-> {24}, seek |-> TRUE],
                [mode |-> "rt", w |-> {24}, r |-> {64}, seek |-> TRUE]}

\* a caller that also reads with an empty buffer
ZeroReadCaller == [mode |-> "fwd", w |-> {}, r |-> {0, 20}, seek |-> FALSE]

\* Three records written so that a Write leaves more than a whole header in the
\* assembly buffer, by a caller that also writes empty buffers
RetainRecs == <<MkRecord("A", 1, 1), MkRecord("D", 2, 1), MkRecord("D", 3, 1)>>
RetainInput == [recs |-> RetainRecs, bytes |-> WireStream(RetainRecs), good |-> TRUE]
RetainCaller == [mode |-> "rt", w |-> {0, 24, 34, 64}, r |-> {64}, seek |-> FALSE]

\* the sinks a caller gives to NewRestoreUtil
WholeSink == [kind |-> "whole", room |-> 0]
SinkKinds(c) ==
    IF c.mode = "rt" /\ ~c.seek /\ c.w = WriteSizes
    THEN {WholeSink, [kind |-> "short", room |-> 0], [kind |-> "zero", room |-> 0],
          [kind |-> "full", room |-> SinkRoom]}
    ELSE {WholeSink}

\* the kinds of source a caller gives to NewBackupUtil
SourceKinds(c) ==
    IF c.mode = "fwd" /\ ~c.seek /\ c.r = ReadSizes THEN {"plain", "dataErr"} ELSE {"plain"}

\* callers that only write and read, with any of the sizes, and callers that also
\* seek, with one size
Callers ==
    {[mode |-> m, w |-> WriteSizes, r |-> ReadSizes, seek |-> FALSE] : m \in {"rt", "fwd"}}
    \cup {[mode |-> m, w |-> {24}, r |-> {20}, seek |-> TRUE] : m \in {"rt", "fwd"}}

----------------------------------------------------------------------------
\* Idle values of the variable groups a specification does not use

NoCall == [op |-> "none", arg |-> <<>>, n |-> 0, moved |-> I64(0), err |-> "nil",
           outcome |-> "return", at |-> "none", ndec |-> 0, calls |-> <<>>]

PipeIdle ==
    /\ input = [recs |-> <<>>, bytes |-> <<>>, good |-> TRUE]
    /\ caller = [mode |-> "idle", w |-> {}, r |-> {}, seek |-> FALSE]
    /\ wpos = 0 /\ rs = NewRestoreUtil(WholeSink) /\ sink = <<>>
    /\ bu = NewBackupUtil("plain")
    /\ rpos = 0 /\ out = <<>> /\ tuples = <<>> /\ last = NoCall /\ sought = FALSE

NoCodecStep == [op |-> "none", err |-> "nil", hdr |-> ZeroHdr, buf |-> <<>>, n |-> 0]

CodecIdle ==
    /\ chdr = ZeroHdr /\ cwire = <<>> /\ cin = [kind |-> "idle", hdr |-> ZeroHdr, wire |-> <<>>]
    /\ ctrace = <<>> /\ cres = NoCodecStep

----------------------------------------------------------------------------
\* The pipelines and their caller

\* the bytes of the BackupUtil's source
Source == IF caller.mode = "fwd" THEN input.bytes ELSE sink

\* the caller goes on as long as no Read or Write failed, panicked or hung
Healthy ==
    /\ last.outcome = "return"
    /\ ~(last.op \in {"Read", "Write"} /\ last.err # "nil")

Writing == caller.mode = "rt" /\ wpos < Len(input.bytes)
Reading == caller.mode = "fwd" \/ (caller.mode = "rt" /\ wpos = Len(input.bytes))

\* the payload bytes of the current record that lie ahead in a stream holding
\* `avail` more bytes, for a pipeline with the given BytesLeft
Ahead(left, avail) ==
    IF IsNeg(left) THEN 0 ELSE IF I64Less(I64(avail), left) THEN avail ELSE IntOf(left)

\* the header fields and payload of the records a Read call decoded and pulled
TupleOf(h) == [Id |-> h.Id, Attributes |-> h.Attributes, Name |-> h.Name,
               SparseOffset |-> h.SparseOffset, Payload |-> <<>>]
AddPulled(ts, pulled) ==
    IF Len(ts) = 0 \/ Len(pulled) = 0 THEN ts
    ELSE [ts EXCEPT ![Len(ts)].Payload = @ \o pulled]

PipeInit ==
    /\ \/ input \in GoodInputs \cup BadInputs /\ caller \in Callers
       \/ input = ScenarioInput /\ caller = ScenarioCaller
       \/ input = LargeInput /\ caller \in {LargeCaller, ZeroReadCaller}
       \/ input = SeekInput /\ caller \in SeekCallers
       \/ input \in {RetainInput} \cup BadInputs /\ caller = RetainCaller
    /\ wpos = 0 /\ sink = <<>>
    /\ \E w \in SinkKinds(caller) : rs = NewRestoreUtil(w)
    /\ \E kind \in SourceKinds(caller) : bu = NewBackupUtil(kind)
    /\ rpos = 0 /\ out = <<>> /\ tuples = <<>> /\ last = NoCall /\ sought = FALSE

Write ==
    /\ Healthy /\ Writing /\ last.op # "RestoreClose"
    /\ \E k \in caller.w :
        LET p == Slice(input.bytes, wpos, Min(wpos + k, Len(input.bytes)))
            res == RestoreUtil_Write(rs, p)
        IN
        /\ rs' = res.rs
        /\ sink' = sink \o res.emitted
        /\ wpos' = wpos + res.n
        /\ last' = [op |-> "Write", arg |-> <<Len(p)>>, n |-> res.n, moved |-> I64(0),
                    err |-> res.err,
                    outcome |-> res.outcome, at |-> res.at, ndec |-> Len(res.hdrs),
                    calls |-> res.calls]
    /\ UNCHANGED <<input, caller, bu, rpos, out, tuples, sought>>

Read ==
    /\ Healthy /\ Reading /\ last.op # "BackupClose"
    /\ Len(out) < Len(Source) + MaxExcess
    /\ \E k \in caller.r :
        LET res == BackupUtil_Read(bu, k, Slice(Source, rpos, Len(Source))) IN
        /\ bu' = res.u
        /\ rpos' = rpos + res.taken
        /\ out' = out \o res.data
        /\ tuples' = AddPulled(tuples \o [i \in 1..Len(res.hdrs) |-> TupleOf(res.hdrs[i])],
                               res.pulled)
        /\ last' = [op |-> "Read", arg |-> <<k>>, n |-> res.n, moved |-> I64(0),
                    err |-> res.err,
                    outcome |-> IF res.err = ErrPanic THEN "panic" ELSE "return",
                    at |-> res.at, ndec |-> Len(res.hdrs), calls |-> res.calls]
    /\ UNCHANGED <<input, caller, wpos, rs, sink, sought>>

BackupSeek ==
    /\ Healthy /\ Reading /\ caller.seek /\ last.op # "BackupClose"
    /\ \E off \in SeekOffsets, whence \in {SeekStart, SeekCurrent}, fails \in BOOLEAN :
        LET res == BackupUtil_Seek(bu, off, whence,
                                   Ahead(bu.ctx.BytesLeft, Len(Source) - rpos), fails) IN
        /\ bu' = res.u
        /\ rpos' = Min(rpos + res.adv, Len(Source))
        /\ sought' = (sought \/ res.calls # <<>>)
        /\ last' = [op |-> "BackupSeek", arg |-> <<off, whence>>, n |-> 0, moved |-> res.n,
                    err |-> res.err, outcome |-> "return", at |-> "seek", ndec |-> 0,
                    calls |-> res.calls]
    /\ UNCHANGED <<input, caller, wpos, rs, sink, out, tuples>>

RestoreSeek ==
    /\ Healthy /\ Writing /\ caller.seek /\ last.op # "RestoreClose"
    /\ \E off \in SeekOffsets, whence \in {SeekStart, SeekCurrent}, fails \in BOOLEAN :
        LET res == RestoreUtil_Seek(rs, off, whence,
                                    Ahead(rs.ctx.BytesLeft, Len(input.bytes) - wpos), fails) IN
        /\ rs' = res.rs
        /\ wpos' = Min(wpos + res.adv, Len(input.bytes))
        /\ sought' = (sought \/ res.calls # <<>>)
        /\ last' = [op |-> "RestoreSeek", arg |-> <<off, whence>>, n |-> 0, moved |-> res.n,
                    err |-> res.err, outcome |-> "return", at |-> "seek", ndec |-> 0,
                    calls |-> res.calls]
    /\ UNCHANGED <<input, caller, sink, bu, rpos, out, tuples>>

\* the caller closes the RestoreUtil, after any of its calls that returned; it
\* makes no call on the object afterwards
RestoreClose ==
    /\ caller.mode = "rt" /\ last.outcome = "return"
    /\ last.op \in {"none", "Write", "RestoreSeek"}
    /\ \E closeErr \in CloseErrs :
        LET res == RestoreUtil_Close(rs, closeErr) IN
        /\ rs' = res.rs
        /\ last' = [op |-> "RestoreClose", arg |-> <<>>, n |-> 0, moved |-> I64(0),
                    err |-> res.err,
                    outcome |-> "return", at |-> "close", ndec |-> 0, calls |-> res.calls]
    /\ UNCHANGED <<input, caller, wpos, sink, bu, rpos, out, tuples, sought>>

\* the caller closes the BackupUtil, after any of its calls that returned; it
\* makes no call on the object afterwards
BackupClose ==
    /\ Reading /\ last.outcome = "return"
    /\ last.op \in {"none", "Read", "BackupSeek", "RestoreClose"}
    /\ \E closeErr \in CloseErrs :
        LET res == BackupUtil_Close(bu, closeErr) IN
        /\ bu' = res.u
        /\ last' = [op |-> "BackupClose", arg |-> <<>>, n |-> 0, moved |-> I64(0),
                    err |-> res.err,
                    outcome |-> "return", at |-> "close", ndec |-> 0, calls |-> res.calls]
    /\ UNCHANGED <<input, caller, wpos, rs, sink, rpos, out, tuples, sought>>

----------------------------------------------------------------------------
\* The header codec applied to headers and to wire bytes

\* ":a:$DATA", "::$DATA", "a:$DATA", ":x:$BITMAP", ":$DATA" as UTF-16 bytes
WireNameA == U16Bytes(<<Colon>> \o NameA \o DataSuffix)
WireNameEmpty == U16Bytes(<<Colon>> \o DataSuffix)
WireNameNoColon == U16Bytes(NameA \o DataSuffix)
WireNameBitmap == U16Bytes(<<58, 120, 58, 36, 66, 73, 84, 77, 65, 80>>)
WireNameBare == U16Bytes(DataSuffix)
\* ":a:$DATA" followed by a NUL code unit
WireNameNul == WireNameA \o <<0, 0>>

\* headers given to ToBytes
EncInputs ==
    {[ZeroHdr EXCEPT !.Id = id, !.Attributes = a, !.Size = I64(sz)] :
        id \in {U32(BackupData), U32(BackupSecurityData)}, a \in {U32(StreamNormalAttribute), U32(StreamSparseAttribute)},
        sz \in {0, 5, 100}}
    \cup {[ZeroHdr EXCEPT !.Id = U32(BackupAlternateData), !.Size = I64(sz), !.Name = nm] :
        sz \in {0, 10}, nm \in {<<>>, NameA, NameAds1, <<97, 0, 98>>}}
    \cup {[ZeroHdr EXCEPT !.Id = U32(BackupSparseBlock), !.Attributes = U32(StreamSparseAttribute),
                          !.Size = I64(sz), !.SparseOffset = U64(off)] :
        sz \in {0, 100, 108}, off \in {0, 4096}}
    \cup {[ZeroHdr EXCEPT !.Id = id, !.Attributes = MaxUint32, !.Size = sz,
                          !.SparseOffset = MaxUint64] :
        id \in {U32(BackupSparseBlock), <<0, 32768>>}, sz \in {TwoTo32, MinInt64}}

\* wire bytes given to fill
DecInputs ==
    {WireHdr(U32(BackupData), U32(StreamNormalAttribute), sz, 0) : sz \in {-1, 0, 5}}
    \cup {WireHdr(U32(BackupSparseBlock), U32(StreamSparseAttribute), sz, 0) \o LEBytes(U64(off)) :
            sz \in {3, 8, 108}, off \in {0, 4096}}
    \cup {WireHdr(U32(BackupAlternateData), U32(StreamNormalAttribute), 10, Len(nm)) \o nm :
            nm \in {WireNameA, WireNameEmpty, WireNameNoColon, WireNameBitmap, WireNameBare,
                    WireNameNul, <<58, 0, 97>>, <<>>}}
    \cup {WireHdr(U32(BackupAlternateData), U32(StreamNormalAttribute), 10, 16) \o Slice(WireNameA, 0, k) : k \in {0, 6}}
    \cup {Slice(WireHdr(U32(BackupData), U32(StreamNormalAttribute), 5, 0), 0, k) : k \in {0, 12}}
    \cup {RawHdrBytes(id, MaxUint32, sz, U32(0)) :
            id \in {U32(BackupData), <<0, 32768>>}, sz \in {TwoTo32, MinInt64}}
    \cup {RawHdrBytes(U32(BackupSparseBlock), U32(StreamSparseAttribute), sz, U32(0))
                \o LEBytes(MaxUint64) : sz \in {TwoTo32, MinInt64}}
    \cup {RawHdrBytes(U32(BackupAlternateData), U32(StreamNormalAttribute), I64(10), nsz)
                \o WireNameA : nsz \in {MaxUint32, <<65534, 65535>>}}

\* header values a decode may overwrite: a fresh one and one holding an earlier record
StaleHdr == [ZeroHdr EXCEPT !.Id = U32(BackupAlternateData), !.Name = NameAds1, !.Size = I64(7),
                            !.SparseOffset = U64(4096), !.fullSize = 42]

CodecInit ==
    /\ \/ cin \in {[kind |-> "hdr", hdr |-> h, wire |-> <<>>] : h \in EncInputs}
       \/ cin \in {[kind |-> "wire", hdr |-> h, wire |-> w] :
                        h \in {ZeroHdr, StaleHdr}, w \in DecInputs}
    /\ chdr = cin.hdr /\ cwire = cin.wire
    /\ ctrace = <<>> /\ cres = NoCodecStep

\* hdr.ToBytes() on the current header
Encode ==
    /\ \/ ctrace = <<>> /\ cin.kind = "hdr"
       \/ ctrace = <<"D">> /\ cres.err = "nil"
    /\ LET e == ToBytes(chdr) IN
        /\ cres' = [op |-> "E", err |-> e.err, hdr |-> chdr, buf |-> e.buf, n |-> Len(e.buf)]
        /\ cwire' = e.buf
    /\ ctrace' = Append(ctrace, "E")
    /\ UNCHANGED <<chdr, cin>>

\* hdr.fill(r) on the current wire bytes; after an encode, into a fresh header
Decode ==
    /\ \/ ctrace = <<>> /\ cin.kind = "wire"
       \/ ctrace = <<"E">> /\ cres.err = "nil"
    /\ LET f == fill(IF ctrace = <<>> THEN chdr ELSE ZeroHdr, cwire) IN
        /\ cres' = [op |-> "D", err |-> f.err, hdr |-> f.hdr, buf |-> cwire, n |-> f.n]
        /\ chdr' = f.hdr
    /\ ctrace' = Append(ctrace, "D")
    /\ UNCHANGED <<cwire, cin>>

----------------------------------------------------------------------------
\* The native transfer object: bkupStruct behind BackupFileReader / BackupFileWriter

\* number of backup contexts the native side hands out in one behaviour
MaxCtx == 2
\* number of explicit Close calls in one behaviour
MaxCloses == 3

\* close() that returns as soon as the context abort failed
closeStopsAtAbortError(s, abortOK, closeOK) ==
    LET abortOp == IF s.restore THEN "BackupWrite" ELSE "BackupRead"
        calls1 == IF s.ctx # 0 THEN <<abortOp>> ELSE <<>>
        err1 == IF s.ctx # 0 /\ ~abortOK THEN <<abortOp>> ELSE <<>>
        s1 == IF s.ctx # 0 /\ err1 = <<>> THEN [s EXCEPT !.ctx = 0] ELSE s
        calls2 == IF s1.h # 0 /\ err1 = <<>> THEN Append(calls1, "CloseHandle") ELSE calls1
        err2 == IF s1.h # 0 /\ err1 = <<>> /\ ~closeOK THEN Append(err1, "CloseHandle")
                ELSE err1
        s2 == IF s1.h # 0 /\ err1 = <<>> /\ closeOK THEN [s1 EXCEPT !.h = 0] ELSE s1
    IN [s |-> [s2 EXCEPT !.cleanup = IF @ = "armed" THEN "stopped" ELSE @],
        calls |-> calls2, err |-> err2]

\* s.close(); abortOK and closeOK say whether the native context abort and
\* CloseHandle succeed.  Result: the object, the native calls made, the joined errors.
close(s, abortOK, closeOK) ==
    LET abortOp == IF s.restore THEN "BackupWrite" ELSE "BackupRead"
        calls1 == IF s.ctx # 0 THEN <<abortOp>> ELSE <<>>
        err1 == IF s.ctx # 0 /\ ~abortOK THEN <<abortOp>> ELSE <<>>
        s1 == IF s.ctx # 0 /\ err1 = <<>> THEN [s EXCEPT !.ctx = 0] ELSE s
        calls2 == IF s1.h # 0 THEN Append(calls1, "CloseHandle") ELSE calls1
        err2 == IF s1.h # 0 /\ ~closeOK THEN Append(err1, "CloseHandle") ELSE err1
        s2 == IF s1.h # 0 /\ closeOK THEN [s1 EXCEPT !.h = 0] ELSE s1
    IN [s |-> [s2 EXCEPT !.cleanup = IF @ = "armed" THEN "stopped" ELSE @],
        calls |-> calls2, err |-> err2]

\* s.read(p) / s.write(p): the native call creates the context on its first success;
\* on a closed handle it fails
transfer(s, ok, fresh) ==
    IF s.h # 0 /\ ok /\ s.ctx = 0 THEN [s EXCEPT !.ctx = fresh] ELSE s

NoClose == [by |-> "none", pre |-> [h |-> 0, ctx |-> 0], abortOK |-> TRUE,
            closeOK |-> TRUE, calls |-> <<>>, err |-> <<>>]

CloseIdle ==
    /\ bk = [h |-> 0, ctx |-> 0, restore |-> FALSE, cleanup |-> "none", reachable |-> FALSE,
             closing |-> FALSE]
    /\ native = [handleCloses |-> 0, aborts |-> <<>>, ctxs |-> 0, closes |-> 0]
    /\ lastClose = NoClose

\* NewBackupFileReader / NewBackupFileWriter succeeded
CloseInit ==
    /\ bk \in {[h |-> 1, ctx |-> 0, restore |-> r, cleanup |-> "armed", reachable |-> TRUE,
                closing |-> FALSE] : r \in BOOLEAN}
    /\ native = [handleCloses |-> 0, aborts |-> <<>>, ctxs |-> 0, closes |-> 0]
    /\ lastClose = NoClose

\* op is among the native calls of a close() and did not fail
Succeeded(res, op) ==
    (\E i \in 1..Len(res.calls) : res.calls[i] = op)
        /\ ~(\E i \in 1..Len(res.err) : res.err[i] = op)

\* the history after a close() that found `pre` and returned `res`: handles the
\* native side released, contexts it aborted, explicit Close calls
Released(pre, res, explicit) ==
    [native EXCEPT
        !.handleCloses = @ + (IF Succeeded(res, "CloseHandle") THEN 1 ELSE 0),
        !.aborts = IF Succeeded(res, "BackupRead") \/ Succeeded(res, "BackupWrite")
                   THEN Append(@, pre.ctx) ELSE @,
        !.closes = @ + (IF explicit THEN 1 ELSE 0)]

\* r.Read / w.Write on the file object: the native call succeeds or fails; it is
\* not offered a success that would need one more context than the bound allows
Transfer ==
    /\ bk.reachable /\ ~bk.closing
    /\ \E ok \in BOOLEAN :
        /\ (ok /\ bk.h # 0 /\ bk.ctx = 0) => native.ctxs < MaxCtx
        /\ LET s == transfer(bk, ok, native.ctxs + 1) IN
            /\ bk' = s
            /\ native' = [native EXCEPT !.ctxs = IF s.ctx # bk.ctx THEN @ + 1 ELSE @]
    /\ UNCHANGED lastClose

\* r.Close() / w.Close() up to s.mu.Lock(): r.s is loaded and, no KeepAlive
\* following, the file object is unreachable from here on when this was the
\* caller's last use of it
CloseCall ==
    /\ bk.reachable /\ ~bk.closing /\ native.closes < MaxCloses
    /\ \E lastUse \in BOOLEAN :
        bk' = [bk EXCEPT !.closing = TRUE, !.reachable = ~lastUse]
    /\ UNCHANGED <<native, lastClose>>

\* the body of the s.close() an explicit Close called, under the mutex
Close ==
    /\ bk.closing
    /\ \E abortOK \in BOOLEAN, closeOK \in BOOLEAN :
        LET res == close(bk, abortOK, closeOK) IN
        /\ bk' = [res.s EXCEPT !.closing = FALSE]
        /\ native' = Released(bk, res, TRUE)
        /\ lastClose' = [by |-> "Close", pre |-> [h |-> bk.h, ctx |-> bk.ctx],
                         abortOK |-> abortOK, closeOK |-> closeOK,
                         calls |-> res.calls, err |-> res.err]

\* the caller drops its last reference to the file object
Drop ==
    /\ bk.reachable /\ ~bk.closing
    /\ bk' = [bk EXCEPT !.reachable = FALSE]
    /\ UNCHANGED <<native, lastClose>>

\* the garbage collector finds the file object unreachable and queues the cleanup
\* registered by runtime.AddCleanup; Stop has no effect on it from here on
Queue ==
    /\ ~bk.reachable /\ bk.cleanup = "armed"
    /\ bk' = [bk EXCEPT !.cleanup = "queued"]
    /\ UNCHANGED <<native, lastClose>>

\* the runtime runs the queued cleanup: s.close() under the mutex
Cleanup ==
    /\ bk.cleanup = "queued"
    /\ \E abortOK \in BOOLEAN, closeOK \in BOOLEAN :
        LET res == close(bk, abortOK, closeOK) IN
        /\ bk' = [res.s EXCEPT !.cleanup = "ran"]
        /\ native' = Released(bk, res, FALSE)
        /\ lastClose' = [by |-> "cleanup", pre |-> [h |-> bk.h, ctx |-> bk.ctx],
                         abortOK |-> abortOK, closeOK |-> closeOK,
                         calls |-> res.calls, err |-> res.err]

----------------------------------------------------------------------------
\* Goroutines calling read, write, seek and close on one bkupStruct

\* number of goroutines that share the object
NumGo == 2
\* number of calls started in one behaviour
MaxGoCalls == 4

Goroutines == 1..NumGo

NoNat == [n |-> 0, err |-> "nil", adv |-> 0]
IdleGo == [pc |-> "idle", op |-> "none", whence |-> SeekCurrent, h |-> 0, nat |-> NoNat,
           n |-> 0, err |-> "nil", native |-> FALSE]

\* what w32api.BackupSeek may return when it is given the handle h
SeekOutcomes(h) ==
    IF h = 0 THEN {[n |-> 0, err |-> ERROR_INVALID_HANDLE, adv |-> 0]}
    ELSE {NativeBackupSeek(off, rem, fails) : off \in {0, 2}, rem \in {1, 2}, fails \in BOOLEAN}
         \cup {[n |-> 0, err |-> ERROR_SUCCESS, adv |-> 0]}

\* what w32api.BackupRead / BackupWrite may return when it is given the handle h:
\* a count with no error, or an error
TransferOutcomes(h) ==
    IF h = 0 THEN {[n |-> 0, err |-> ERROR_INVALID_HANDLE, adv |-> 0]}
    ELSE {[n |-> k, err |-> e, adv |-> 0] :
            k \in {0, 2}, e \in {"nil", ERROR_ACCESS_DENIED, ERROR_INVALID_HANDLE}}

\* s.mu.Lock() that does not wait for the holder
LockableAlways(m) == TRUE

\* s.mu.Lock() returns only when no goroutine holds the mutex
Lockable(m) == m = 0

\* the methods a BackupFileReader or BackupFileWriter calls on its bkupStruct
GoOps(s) == {IF s.restore THEN "write" ELSE "read", "seek", "close"}

\* whether the call makes a native call once it holds the mutex
CallsNative(s, op, whence) ==
    IF op = "seek" THEN whence = SeekCurrent
    ELSE IF op = "close" THEN s.ctx # 0 \/ s.h # 0
    ELSE TRUE

GoIdle ==
    /\ so = [h |-> 0, ctx |-> 0, restore |-> FALSE, cleanup |-> "none", reachable |-> FALSE]
    /\ mu = 0 /\ gr = [g \in Goroutines |-> IdleGo]
    /\ hist = [released |-> {}, started |-> 0, ctxs |-> 0]

\* NewBackupFileReader / NewBackupFileWriter succeeded and the object is shared
GoInit ==
    /\ so \in {[h |-> 1, ctx |-> 0, restore |-> r, cleanup |-> "armed", reachable |-> TRUE] :
                r \in BOOLEAN}
    /\ mu = 0 /\ gr = [g \in Goroutines |-> IdleGo]
    /\ hist = [released |-> {}, started |-> 0, ctxs |-> 0]

\* a goroutine calls a method of the object
GoCall(g) ==
    /\ so.reachable /\ gr[g].pc = "idle" /\ hist.started < MaxGoCalls
    /\ \E op \in GoOps(so), whence \in {SeekStart, SeekCurrent} :
        /\ op # "seek" => whence = SeekCurrent
        /\ gr' = [gr EXCEPT ![g] = [IdleGo EXCEPT !.pc = "wait", !.op = op,
                                                  !.whence = whence]]
    /\ hist' = [hist EXCEPT !.started = @ + 1]
    /\ UNCHANGED <<so, mu>>

\* s.mu.Lock() returns
GoLock(g) ==
    /\ gr[g].pc = "wait" /\ Lockable(mu)
    /\ mu' = g
    /\ gr' = [gr EXCEPT ![g].pc = "held"]
    /\ UNCHANGED <<so, hist>>

\* the method body up to its native call: the call is entered with s.h, or the
\* method is over without one
GoEnter(g) ==
    /\ gr[g].pc = "held"
    /\ gr' = IF CallsNative(so, gr[g].op, gr[g].whence)
             THEN [gr EXCEPT ![g].pc = "native", ![g].h = so.h, ![g].native = TRUE]
             ELSE [gr EXCEPT ![g].pc = "after",
                             ![g].n = seek(SrcPath, gr[g].whence, NoNat).n,
                             ![g].err = IF gr[g].op = "seek"
                                        THEN seek(SrcPath, gr[g].whence, NoNat).err
                                        ELSE "nil"]
    /\ UNCHANGED <<so, mu, hist>>

\* the native call of read or write returns
GoTransferred(g) ==
    /\ gr[g].pc = "native" /\ gr[g].op \in {"read", "write"}
    /\ \E nat \in TransferOutcomes(gr[g].h) :
        LET res == IF gr[g].op = "read" THEN read(SrcPath, nat) ELSE write(SrcPath, nat) IN
        /\ (nat.err = "nil" /\ so.h # 0 /\ so.ctx = 0) => hist.ctxs < MaxCtx
        /\ so' = transfer(so, nat.err = "nil", hist.ctxs + 1)
        /\ hist' = [hist EXCEPT !.ctxs = IF so'.ctx # so.ctx THEN @ + 1 ELSE @]
        /\ gr' = [gr EXCEPT ![g].pc = "after", ![g].nat = nat,
                            ![g].n = res.n, ![g].err = res.err]
    /\ UNCHANGED mu

\* the native call of seek returns
GoSought(g) ==
    /\ gr[g].pc = "native" /\ gr[g].op = "seek"
    /\ \E nat \in SeekOutcomes(gr[g].h) :
        gr' = [gr EXCEPT ![g].pc = "after", ![g].nat = nat,
                         ![g].n = seek(SrcPath, gr[g].whence, nat).n,
                         ![g].err = seek(SrcPath, gr[g].whence, nat).err]
    /\ UNCHANGED <<so, mu, hist>>

\* the native calls of close return
GoClosed(g) ==
    /\ gr[g].pc = "native" /\ gr[g].op = "close"
    /\ \E abortOK \in BOOLEAN, closeOK \in BOOLEAN :
        /\ so' = close(so, abortOK, closeOK).s
        /\ hist' = [hist EXCEPT !.released =
                        IF Succeeded(close(so, abortOK, closeOK), "CloseHandle")
                        THEN @ \cup {so.h} ELSE @]
        /\ gr' = [gr EXCEPT ![g].pc = "after",
                            ![g].err = IF close(so, abortOK, closeOK).err = <<>> THEN "nil"
                                       ELSE "close failed"]
    /\ UNCHANGED mu

\* the deferred s.mu.Unlock()
GoUnlock(g) ==
    /\ gr[g].pc = "after"
    /\ mu' = 0
    /\ gr' = [gr EXCEPT ![g].pc = "idle"]
    /\ UNCHANGED <<so, hist>>

----------------------------------------------------------------------------
\* Package ads: FileADS and its StreamInfoMap

ErrNoADS == "no alternate data stream found"
ErrUnsupported == "file system does not support stream"

\* number of FileADS calls in one behaviour
MaxAdsCalls == 3

\* stream names and the size each stream has when it exists
AdsNames == {"a", "b", "c"}
AdsSize(name) == IF name = "a" THEN 3 ELSE IF name = "b" THEN 5 ELSE 7

\* xsync.Map: Delete and Store; a map is a function from the names it holds
MapDelete(m, k) == [n \in DOMAIN m \ {k} |-> m[n]]
MapStore(m, k, v) == [n \in DOMAIN m \cup {k} |-> IF n = k THEN v ELSE m[n]]
EmptyMap == [n \in {} |-> 0]

\* RenameADS that stores the new name without deleting the old one
RenameKeepsOld(m, oldName, newName, fsOK) ==
    IF oldName \notin DOMAIN m
    THEN [map |-> m, err |-> "ADS does not exist", fsops |-> 0]
    ELSE IF ~fsOK THEN [map |-> m, err |-> "rename failed", fsops |-> 1]
    ELSE [map |-> MapStore(m, newName, m[oldName]), err |-> "nil", fsops |-> 1]

\* a.RenameADS(oldName, newName, overwrite) on the map m; fsOK says whether opening
\* the stream and renaming it succeed.  Result: the map, the error and the number of
\* filesystem operations tried.
RenameADS(m, oldName, newName, fsOK) ==
    IF oldName \notin DOMAIN m
    THEN [map |-> m, err |-> "ADS does not exist", fsops |-> 0]
    ELSE IF ~fsOK THEN [map |-> m, err |-> "rename failed", fsops |-> 1]
    ELSE [map |-> MapStore(MapDelete(m, oldName), newName, m[oldName]),
          err |-> "nil", fsops |-> 1]

\* a.RemoveADS(name); fsOK says whether os.Remove succeeds
RemoveADS(m, name, fsOK) ==
    IF name \notin DOMAIN m
    THEN [map |-> m, err |-> "stream does not exist", fsops |-> 0]
    ELSE IF ~fsOK THEN [map |-> m, err |-> "remove failed", fsops |-> 1]
    ELSE [map |-> MapDelete(m, name), err |-> "nil", fsops |-> 1]

\* a.CollectADS(); first is what FindFirstStream answers ("ok", "eof", "invalid",
\* "denied"), found the named data streams stored before the enumeration ended,
\* nextOK whether it ended with ERROR_HANDLE_EOF, closeOK whether FindClose succeeds
CollectADS(m, first, found, nextOK, closeOK) ==
    IF first = "eof" THEN [map |-> m, err |-> ErrNoADS]
    ELSE IF first = "invalid" THEN [map |-> m, err |-> ErrUnsupported]
    ELSE IF first # "ok" THEN [map |-> m, err |-> "FindFirstStream failed"]
    ELSE IF ~closeOK THEN [map |-> found, err |-> "FindClose failed"]
    ELSE IF DOMAIN found = {} THEN [map |-> found, err |-> ErrNoADS]
    ELSE [map |-> found, err |-> IF nextOK THEN "nil" ELSE "FindNextStream failed"]

\* a.RemoveAllADS(): c is the result of a.CollectADS(), unremovable the streams
\* whose os.Remove fails.  Result: the map, the error, the streams os.Remove was
\* tried on and those it failed on.
RemoveAllADS(c, unremovable) ==
    IF c.err # "nil"
    THEN [map |-> c.map, err |-> c.err, tried |-> {}, failed |-> {}]
    ELSE [map |-> [n \in DOMAIN c.map \cap unremovable |-> c.map[n]],
          err |-> IF DOMAIN c.map \cap unremovable = {} THEN "nil" ELSE "remove failed",
          tried |-> DOMAIN c.map, failed |-> DOMAIN c.map \cap unremovable]

\* the creation disposition OpenFileADS gives to CreateFile for an openFlag with or
\* without O_CREATE, O_TRUNC and O_EXCL
CreateMode(create, trunc, excl) ==
    IF create /\ excl /\ ~trunc THEN "CREATE_NEW"
    ELSE IF create /\ trunc /\ ~excl THEN "CREATE_ALWAYS"
    ELSE IF create /\ ~trunc /\ ~excl THEN "OPEN_ALWAYS"
    ELSE IF trunc /\ ~create /\ ~excl THEN "TRUNCATE_EXISTING"
    ELSE "OPEN_EXISTING"

\* OpenFileADS(path, name, openFlag) on a file that has the named streams `streams`;
\* `fails` says whether CreateFile fails for a reason of its own.  Result: the
\* streams of the file and the error.
OpenFileADS(streams, name, createmode, fails) ==
    IF fails THEN [streams |-> streams, err |-> ERROR_ACCESS_DENIED]
    ELSE IF name \in DOMAIN streams
    THEN IF createmode = "CREATE_NEW" THEN [streams |-> streams, err |-> "ERROR_FILE_EXISTS"]
         ELSE IF createmode \in {"CREATE_ALWAYS", "TRUNCATE_EXISTING"}
         THEN [streams |-> MapStore(streams, name, 0), err |-> "nil"]
         ELSE [streams |-> streams, err |-> "nil"]
    ELSE IF createmode \in {"TRUNCATE_EXISTING", "OPEN_EXISTING"}
    THEN [streams |-> streams, err |-> "ERROR_FILE_NOT_FOUND"]
    ELSE [streams |-> MapStore(streams, name, 0), err |-> "nil"]

NoAdsCall == [op |-> "none", name |-> "", newName |-> "", pre |-> EmptyMap, err |-> "nil",
              fsops |-> 0, tried |-> {}, failed |-> {}, collect |-> "nil", n |-> 0]

AdsIdle ==
    /\ fads = [StreamInfoMap |-> EmptyMap] /\ fstreams = EmptyMap /\ lastAds = NoAdsCall

\* GetFileADS succeeded on a file with at least one named stream
AdsInit ==
    /\ fstreams \in {[n \in D |-> AdsSize(n)] : D \in (SUBSET {"a", "b"}) \ {{}}}
    /\ fads = [StreamInfoMap |-> fstreams]
    /\ lastAds = [NoAdsCall EXCEPT !.op = "GetFileADS"]

\* a.RenameADS(oldName, newName, overwrite): the filesystem renames the stream unless
\* the call fails, the stream is gone or the new name is taken and not overwritten
AdsRename ==
    /\ lastAds.op # "none" /\ lastAds.n < MaxAdsCalls
    /\ \E oldName \in AdsNames, newName \in AdsNames, overwrite \in BOOLEAN, fails \in BOOLEAN :
        LET fsOK == /\ ~fails /\ oldName \in DOMAIN fstreams
                    /\ (newName \notin DOMAIN fstreams \/ overwrite)
            res == RenameADS(fads.StreamInfoMap, oldName, newName, fsOK)
        IN
        /\ fads' = [fads EXCEPT !.StreamInfoMap = res.map]
        /\ fstreams' = IF res.fsops > 0 /\ fsOK
                       THEN MapStore(MapDelete(fstreams, oldName), newName, fstreams[oldName])
                       ELSE fstreams
        /\ lastAds' = [NoAdsCall EXCEPT !.op = "RenameADS", !.name = oldName,
                            !.newName = newName, !.pre = fads.StreamInfoMap,
                            !.err = res.err, !.fsops = res.fsops, !.n = lastAds.n + 1]

\* a.RemoveADS(name)
AdsRemove ==
    /\ lastAds.op # "none" /\ lastAds.n < MaxAdsCalls
    /\ \E name \in AdsNames, fails \in BOOLEAN :
        LET fsOK == ~fails /\ name \in DOMAIN fstreams
            res == RemoveADS(fads.StreamInfoMap, name, fsOK)
        IN
        /\ fads' = [fads EXCEPT !.StreamInfoMap = res.map]
        /\ fstreams' = IF res.fsops > 0 /\ fsOK THEN MapDelete(fstreams, name) ELSE fstreams
        /\ lastAds' = [NoAdsCall EXCEPT !.op = "RemoveADS", !.name = name,
                            !.pre = fads.StreamInfoMap, !.err = res.err,
                            !.fsops = res.fsops, !.n = lastAds.n + 1]

\* OpenFileADS(a.Path, name, openFlag) by the owner of the FileADS
AdsOpen ==
    /\ lastAds.op # "none" /\ lastAds.n < MaxAdsCalls
    /\ \E name \in AdsNames, create \in BOOLEAN, trunc \in BOOLEAN, excl \in BOOLEAN,
          fails \in BOOLEAN :
        LET res == OpenFileADS(fstreams, name, CreateMode(create, trunc, excl), fails) IN
        /\ fstreams' = res.streams
        /\ lastAds' = [NoAdsCall EXCEPT !.op = "OpenFileADS", !.name = name,
                            !.pre = fads.StreamInfoMap, !.err = res.err,
                            !.fsops = 1, !.n = lastAds.n + 1]
    /\ UNCHANGED fads

\* a.CollectADS(): the enumeration may fail at its start, after any of the streams,
\* also after the last one, or when it is closed
AdsCollect ==
    /\ lastAds.op # "none" /\ lastAds.n < MaxAdsCalls
    /\ \E first \in {"ok", "eof", "invalid", "denied"}, seen \in SUBSET DOMAIN fstreams,
          nextOK \in BOOLEAN, closeOK \in BOOLEAN :
        LET c == CollectADS(fads.StreamInfoMap, first, [n \in seen |-> fstreams[n]],
                            nextOK, closeOK)
        IN
        /\ first = "eof" => DOMAIN fstreams = {}
        /\ nextOK => seen = DOMAIN fstreams
        /\ fads' = [fads EXCEPT !.StreamInfoMap = c.map]
        /\ lastAds' = [NoAdsCall EXCEPT !.op = "CollectADS", !.pre = fads.StreamInfoMap,
                            !.err = c.err, !.collect = c.err, !.n = lastAds.n + 1]
    /\ UNCHANGED fstreams

\* a.RemoveAllADS(): the enumeration may fail at its start, after any of the streams,
\* also after the last one, or when it is closed, and os.Remove may fail on any of
\* the streams
AdsRemoveAll ==
    /\ lastAds.op # "none" /\ lastAds.n < MaxAdsCalls
    /\ \E first \in {"ok", "eof", "invalid", "denied"}, seen \in SUBSET DOMAIN fstreams,
          nextOK \in BOOLEAN, closeOK \in BOOLEAN, unremovable \in SUBSET DOMAIN fstreams :
        LET c == CollectADS(fads.StreamInfoMap, first, [n \in seen |-> fstreams[n]],
                            nextOK, closeOK)
            res == RemoveAllADS(c, unremovable)
        IN
        /\ first = "eof" => DOMAIN fstreams = {}
        /\ nextOK => seen = DOMAIN fstreams
        /\ fads' = [fads EXCEPT !.StreamInfoMap = res.map]
        /\ fstreams' = [n \in DOMAIN fstreams \ (res.tried \ res.failed) |-> fstreams[n]]
        /\ lastAds' = [NoAdsCall EXCEPT !.op = "RemoveAllADS", !.pre = fads.StreamInfoMap,
                            !.err = res.err, !.fsops = Cardinality(res.tried),
                            !.tried = res.tried, !.failed = res.failed,
                            !.collect = c.err, !.n = lastAds.n + 1]

----------------------------------------------------------------------------
\* Specification: a behaviour exercises the pipelines, the codec or the transfer object

Init ==
    \/ PipeInit /\ CodecIdle /\ CloseIdle /\ GoIdle /\ AdsIdle
    \/ PipeIdle /\ CodecInit /\ CloseIdle /\ GoIdle /\ AdsIdle
    \/ PipeIdle /\ CodecIdle /\ CloseInit /\ GoIdle /\ AdsIdle
    \/ PipeIdle /\ CodecIdle /\ CloseIdle /\ GoInit /\ AdsIdle
    \/ PipeIdle /\ CodecIdle /\ CloseIdle /\ GoIdle /\ AdsInit

\* the variables an action of the pipelines, the codec, the transfer object, the
\* goroutines or the stream map leaves alone
OnlyPipe == UNCHANGED cvars /\ UNCHANGED kvars /\ UNCHANGED gvars /\ UNCHANGED avars
OnlyCodec == UNCHANGED pvars /\ UNCHANGED kvars /\ UNCHANGED gvars /\ UNCHANGED avars
OnlyClose == UNCHANGED cvars /\ UNCHANGED pvars /\ UNCHANGED gvars /\ UNCHANGED avars
OnlyGo == UNCHANGED cvars /\ UNCHANGED pvars /\ UNCHANGED kvars /\ UNCHANGED avars
OnlyAds == UNCHANGED cvars /\ UNCHANGED pvars /\ UNCHANGED kvars /\ UNCHANGED gvars

Next ==
    \/ Write /\ OnlyPipe
    \/ Read /\ OnlyPipe
    \/ BackupSeek /\ OnlyPipe
    \/ RestoreSeek /\ OnlyPipe
    \/ RestoreClose /\ OnlyPipe
    \/ BackupClose /\ OnlyPipe
    \/ Encode /\ OnlyCodec
    \/ Decode /\ OnlyCodec
    \/ Transfer /\ OnlyClose
    \/ CloseCall /\ OnlyClose
    \/ Close /\ OnlyClose
    \/ Drop /\ OnlyClose
    \/ Queue /\ OnlyClose
    \/ Cleanup /\ OnlyClose
    \/ \E g \in Goroutines :
        /\ \/ GoCall(g) \/ GoLock(g) \/ GoEnter(g) \/ GoTransferred(g)
           \/ GoSought(g) \/ GoClosed(g) \/ GoUnlock(g)
        /\ OnlyGo
    \/ AdsRename /\ OnlyAds
    \/ AdsRemove /\ OnlyAds
    \/ AdsRemoveAll /\ OnlyAds
    \/ AdsCollect /\ OnlyAds
    \/ AdsOpen /\ OnlyAds

Spec == Init /\ [][Next]_vars

----------------------------------------------------------------------------
\* Properties

\* s is a prefix of t
IsPrefix(s, t) == Len(s) <= Len(t) /\ s = Slice(t, 0, Len(s))

\* a round trip of well-formed records by a caller that never seeks
RoundTrip == caller.mode = "rt" /\ input.good /\ ~caller.seek

\* the forward pipeline has reported end-of-stream
AtEOF == last.op = "Read" /\ last.err = ErrEOF

\* C1: chunking-invariance.  Whatever chunk sizes the caller uses, writing well-formed
\* records through RestoreUtil and reading the sink back through BackupUtil never
\* fails, panics or hangs, the records read so far are the first records written,
\* and at end-of-stream the (Id, Attributes, Name, SparseOffset, payload) tuples
\* read are exactly the records written.
C1_ChunkingInvariance ==
    RoundTrip =>
        /\ last.outcome = "return"
        /\ (last.op = "Write" => last.err = "nil")
        /\ (last.op = "Read" /\ last.err # "nil" => last.err = ErrEOF)
        /\ Len(tuples) <= Len(input.recs)
        /\ \A i \in 1..Len(tuples) :
                /\ tuples[i].Id = input.recs[i].Id
                /\ tuples[i].Attributes = input.recs[i].Attributes
                /\ tuples[i].Name = input.recs[i].Name
                /\ tuples[i].SparseOffset = input.recs[i].SparseOffset
                /\ IsPrefix(tuples[i].Payload, input.recs[i].Payload)
        /\ (AtEOF => tuples = input.recs)

\* the scenario: "ads1" with 10 payload bytes, then a data stream with 5, 3-byte
\* writes, 7-byte reads
InScenario == input = ScenarioInput /\ caller = ScenarioCaller

\* the encoded headers of the scenario's two records
ScenarioHdr1 == ToBytes([ZeroHdr EXCEPT !.Id = U32(BackupAlternateData), !.Name = NameAds1,
                                        !.Size = I64(10)]).buf
ScenarioHdr2 == ToBytes([ZeroHdr EXCEPT !.Id = U32(BackupData), !.Size = I64(5)]).buf
ScenarioBytes == ScenarioHdr1 \o ScenarioRecs[1].Payload \o ScenarioHdr2
                    \o ScenarioRecs[2].Payload

\* C2: in the scenario the caller hands over the 42 + 10 + 20 + 5 = 77 bytes, every
\* Write accepts its whole chunk, the sink receives exactly those bytes in order,
\* every Read returns bytes or end-of-stream, the bytes read are those bytes in
\* order, and end-of-stream is (0, io.EOF) after all 77 of them.
C2_Scenario ==
    InScenario =>
        /\ Len(ScenarioHdr1) = 42 /\ Len(ScenarioHdr2) = 20
        /\ Len(ScenarioBytes) = 77 /\ input.bytes = ScenarioBytes
        /\ last.outcome = "return"
        /\ (last.op = "Write" => last.err = "nil" /\ last.n = last.arg[1])
        /\ IsPrefix(sink, ScenarioBytes)
        /\ (wpos = Len(ScenarioBytes) => sink = ScenarioBytes)
        /\ IsPrefix(out, ScenarioBytes)
        /\ (last.op = "Read" => \/ last.err = "nil" /\ last.n > 0
                                \/ last.err = ErrEOF /\ last.n = 0 /\ out = ScenarioBytes)

\* the scenario was written, read back to the end, and end-of-stream was reported
C2_Witness ==
    InScenario /\ AtEOF /\ last.n = 0 /\ sink = ScenarioBytes /\ out = ScenarioBytes

\* the logical fields of two headers agree
SameLogical(a, b) ==
    /\ a.Id = b.Id /\ a.Attributes = b.Attributes /\ a.Size = b.Size
    /\ a.Name = b.Name /\ a.SparseOffset = b.SparseOffset

\* C3: header round trip.  Whenever ToBytes encoded a header without error, fill of
\* the produced bytes succeeds and yields the same Id, Attributes, Size, Name and
\* SparseOffset.
C3_RoundTrip ==
    (cin.kind = "hdr" /\ ctrace = <<"E", "D">>) =>
        cres.err = "nil" /\ SameLogical(cres.hdr, cin.hdr)

\* the Size field of encoded header bytes
WireSize(buf) == LEInt(Slice(buf, 8, 16))

\* b is a plus offsetSz as integers, without wrapping around
PlusOffsetSz(a, b) == b = I64Add(a, I64(offsetSz)) /\ I64Less(a, b)

\* wire bytes that start with a complete sparse-block header
IsSparseWire(w) ==
    Len(w) >= hdrSz + offsetSz /\ LEUint(Slice(w, 0, 4)) = U32(BackupSparseBlock)

\* C4: sparse-block arithmetic.  fill of a sparse-block header gives the wire Size
\* minus 8 as Size and the next 8 bytes as SparseOffset (108 gives 100), and ToBytes
\* of a sparse-block header writes Size plus 8 in the Size field (re-encoding the
\* header decoded from 108 writes 108).
C4_SparseArithmetic ==
    /\ (cin.kind = "wire" /\ IsSparseWire(cin.wire) /\ ctrace = <<"D">>) =>
            /\ cres.err = "nil"
            /\ PlusOffsetSz(cres.hdr.Size, WireSize(cin.wire))
            /\ cres.hdr.SparseOffset = LEUint(Slice(cin.wire, hdrSz, hdrSz + offsetSz))
    /\ (cres.op = "E" /\ cres.err = "nil" /\ cres.hdr.Id = U32(BackupSparseBlock)) =>
            PlusOffsetSz(cres.hdr.Size, WireSize(cres.buf))
    /\ (cin.kind = "wire" /\ IsSparseWire(cin.wire) /\ ctrace = <<"D", "E">>) =>
            cres.err = "nil" /\ WireSize(cres.buf) = WireSize(cin.wire)

\* wire bytes that start with the fixed part of a named-alternate-stream header
IsAltWire(w) == Len(w) >= hdrSz /\ LEUint(Slice(w, 0, 4)) = U32(BackupAlternateData)

\* the StreamNameSize field of wire bytes
WireNameSize(w) == LEUint(Slice(w, 16, 20))

\* the StreamNameSize field is odd
OddNameSize(w) == WireNameSize(w)[1] % 2 = 1

\* the wire bytes hold as many bytes after the fixed fields as StreamNameSize says
NamePresent(w) == ~UintLess(U32(Len(w) - hdrSz), WireNameSize(w))

NameErrs == {ErrOddName, ErrEmptyADSName}

\* decoding a named-alternate-stream header with an odd or zero StreamNameSize
DecodeRejectsName ==
    (cin.kind = "wire" /\ IsAltWire(cin.wire) /\ ctrace = <<"D">>) =>
        /\ (OddNameSize(cin.wire) => cres.err = ErrOddName)
        /\ (WireNameSize(cin.wire) = U32(0) => cres.err = ErrEmptyADSName)

\* a Read or Write that returned one of the two name errors from its decode.  The
\* decode was called with the BytesLeft of the call's start when the call started in
\* strmState and decoded nothing before, and with 0 otherwise (the loop enters
\* strmState only at BytesLeft = 0).
RejectedStays(ctx, ctxAfter) ==
    /\ ctxAfter.state = strmState
    /\ ctxAfter.BytesLeft = (IF ctx.state = strmState /\ last'.ndec = 0
                             THEN ctx.BytesLeft ELSE I64(0))

PipelineStays ==
    (last' # last /\ last'.at = "fill" /\ last'.err \in NameErrs) =>
        /\ last'.n = 0
        /\ (last'.op = "Read" => RejectedStays(bu.ctx, bu'.ctx))
        /\ (last'.op = "Write" => RejectedStays(rs.ctx, rs'.ctx))

\* C5: name rejection.  fill of a named-alternate-stream header fails with the
\* odd-length error when StreamNameSize is odd and with ErrEmptyADSName when it is 0,
\* and the Read or Write that made the decode returns that error with its pipeline
\* in strmState (AwaitingHeader) and BytesLeft as it was when the decode was called.
C5_NameRejection == []DecodeRejectsName /\ [][PipelineStays]_vars

\* a Write, after an earlier one, returned the odd-length error and left the
\* RestoreUtil in strmState
C5_Witness ==
    /\ last.op = "Write" /\ last.at = "fill" /\ last.err = ErrOddName
    /\ wpos > 0 /\ rs.ctx.state = strmState /\ rs.ctx.BytesLeft = I64(0)

\* the code units of the name field of complete named-alternate-stream wire bytes
WireName(w) == U16Units(Slice(w, hdrSz, hdrSz + NatOf(WireNameSize(w))))

\* the code units u have the form ":<name>:$DATA" with a non-empty <name>
WellFormedName(u) ==
    Len(u) >= 8 /\ u[1] = Colon /\ Slice(u, Len(u) - 6, Len(u)) = DataSuffix

\* C6: fill of a named-alternate-stream header whose name (even, non-zero length,
\* completely present) is not ":<name>:$DATA" with a non-empty <name> fails with
\* ErrEmptyADSName, and no named-alternate-stream header is decoded without error
\* to an empty Name.
C6_MalformedNameRejected ==
    (cin.kind = "wire" /\ IsAltWire(cin.wire) /\ ctrace = <<"D">>) =>
        /\ (cres.err = "nil" => cres.hdr.Name # <<>>)
        /\ ( /\ WireNameSize(cin.wire) # U32(0) /\ ~OddNameSize(cin.wire)
             /\ NamePresent(cin.wire)
             /\ ~WellFormedName(WireName(cin.wire))
             => cres.err = ErrEmptyADSName )

\* C7: Seek in strmState (AwaitingHeader), on either pipeline and also before the
\* first Read or Write, returns (0, ErrSkipHeader), calls nothing on the source or
\* sink, and leaves both objects (state, BytesLeft, header, LastErr, leftData,
\* hdrData) and the source and sink untouched.
C7_SeekAwaitingHeader ==
    [][ /\ (BackupSeek /\ bu.ctx.state = strmState) =>
                /\ last'.moved = I64(0) /\ last'.err = ErrSkipHeader /\ last'.calls = <<>>
                /\ UNCHANGED <<bu, rs, rpos, wpos, sink, out, sought>>
        /\ (RestoreSeek /\ rs.ctx.state = strmState) =>
                /\ last'.moved = I64(0) /\ last'.err = ErrSkipHeader /\ last'.calls = <<>>
                /\ UNCHANGED <<bu, rs, rpos, wpos, sink, out, sought>> ]_vars

\* a Seek of the BackupUtil between two records was refused
C7_Witness ==
    /\ last.op = "BackupSeek" /\ last.moved = I64(0) /\ last.err = ErrSkipHeader
    /\ bu.ctx.state = strmState /\ rpos > 0

\* C8: forward-pipeline byte fidelity.  Reading a source of well-formed records,
\* each with at least one payload byte, with any buffer lengths, the bytes returned
\* so far are the first bytes of the source, no Read fails before end-of-stream,
\* and at end-of-stream the bytes returned are the source's bytes.
C8_ForwardFidelity ==
    ( /\ caller.mode = "fwd" /\ input.good /\ ~caller.seek
      /\ \A i \in 1..Len(input.recs) : Len(input.recs[i].Payload) >= 1 ) =>
        /\ IsPrefix(out, input.bytes)
        /\ (last.op = "Read" /\ last.err # "nil" =>
                last.err = ErrEOF /\ last.n = 0 /\ out = input.bytes)

\* C9: resource release.  Over any sequence of Close calls, transfers and the
\* cleanup, CloseHandle succeeds at most once, no backup context is aborted
\* successfully twice, a close() that finds handle and context released calls
\* nothing and returns nil, an explicit Close stops the cleanup, and the cleanup
\* never runs after an explicit Close.
C9_ReleaseOnce ==
    /\ native.handleCloses <= 1
    /\ \A i, j \in 1..Len(native.aborts) :
            native.aborts[i] = native.aborts[j] => i = j
    /\ (lastClose.by # "none" /\ lastClose.pre.h = 0 /\ lastClose.pre.ctx = 0) =>
            lastClose.calls = <<>> /\ lastClose.err = <<>>
    /\ (native.closes > 0 => bk.cleanup = "stopped")
    /\ (lastClose.by = "cleanup" => native.closes = 0)

\* the errors a close() has to report for what it found and what failed
ExpectedErrs(c) ==
    (IF c.pre.ctx # 0 /\ ~c.abortOK
     THEN <<IF bk.restore THEN "BackupWrite" ELSE "BackupRead">> ELSE <<>>)
    \o (IF c.pre.h # 0 /\ ~c.closeOK THEN <<"CloseHandle">> ELSE <<>>)

\* C10: release errors are aggregated.  close() returns the failure of the context
\* abort and the failure of CloseHandle, both when both fail and the one that
\* failed otherwise, and it calls CloseHandle on an open handle also after a
\* failed context abort.
C10_ErrorsAggregated ==
    lastClose.by # "none" =>
        /\ lastClose.err = ExpectedErrs(lastClose)
        /\ (lastClose.pre.h # 0 =>
                \E i \in 1..Len(lastClose.calls) : lastClose.calls[i] = "CloseHandle")

\* a close() in which the context abort and CloseHandle both failed
C10_Witness ==
    /\ lastClose.by # "none" /\ lastClose.pre.ctx # 0 /\ lastClose.pre.h # 0
    /\ ~lastClose.abortOK /\ ~lastClose.closeOK
    /\ Len(lastClose.err) = 2

\* C11: non-negative sizes.  Every header fill decodes without error has Size >= 0,
\* and in every state of both pipelines 0 <= BytesLeft <= Size of the current
\* header, whatever the input bytes are.
C11_NonNegativeSize ==
    /\ (cres.op = "D" /\ cres.err = "nil" => ~IsNeg(cres.hdr.Size))
    /\ ~IsNeg(bu.ctx.BytesLeft) /\ I64LessEq(bu.ctx.BytesLeft, bu.ctx.Hdr.Size)
    /\ ~IsNeg(rs.ctx.BytesLeft) /\ I64LessEq(rs.ctx.BytesLeft, rs.ctx.Hdr.Size)

\* C12: no absolute seek.  Every Seek call a pipeline forwards to its source or
\* sink is relative to the current position, whatever whence the caller passed.
C12_OnlyRelativeSeeks ==
    \A i \in 1..Len(last.calls) :
        last.calls[i][1] = "Seek" => last.calls[i][3] = SeekCurrent

\* the chunk of len bytes the caller passes to Write next
ChunkOf(len) == Slice(input.bytes, wpos, Min(wpos + len, Len(input.bytes)))

\* the bytes b do not hold a complete header
Incomplete(b) == fill(ZeroHdr, b).err \in {ErrEOF, ErrUnexpectedEOF}

\* C13: insufficient header bytes.  A Write(p) called in strmState (AwaitingHeader)
\* whose p, after the retained bytes, does not complete a header returns
\* (len(p), nil), calls neither hook nor sink, stays in strmState and retains the
\* previously retained bytes followed by p.
C13_InsufficientHeader ==
    [][ (Write /\ rs.ctx.state = strmState
               /\ Incomplete(rs.hdrData \o ChunkOf(last'.arg[1]))) =>
            /\ last'.n = last'.arg[1] /\ last'.err = "nil" /\ last'.outcome = "return"
            /\ last'.calls = <<>> /\ sink' = sink
            /\ rs'.ctx.state = strmState /\ rs'.ctx.BytesLeft = rs.ctx.BytesLeft
            /\ rs'.hdrData = rs.hdrData \o ChunkOf(last'.arg[1]) ]_vars

\* a Write added its input to bytes retained by an earlier Write, the header still
\* being incomplete
C13_Witness ==
    /\ last.op = "Write" /\ last.at = "need" /\ last.n = last.arg[1] /\ last.n > 0
    /\ rs.ctx.state = strmState /\ Len(rs.hdrData) > last.arg[1]
    /\ rs.hdrData = Slice(input.bytes, wpos - Len(rs.hdrData), wpos)

\* records without sparse blocks and with at least one payload byte each
PlainRecords ==
    \A i \in 1..Len(input.recs) :
        input.recs[i].Id # U32(BackupSparseBlock) /\ Len(input.recs[i].Payload) >= 1

\* C14: record boundary inside one Write.  After every Write of a round trip the
\* input bytes handed over so far are, in order, the bytes the sink received
\* followed by the bytes retained for the next header: the next header is decoded
\* from exactly the input bytes that follow the payload, also when the header of
\* the current record was supplied in parts.
C14_RecordBoundary ==
    (RoundTrip /\ PlainRecords /\ last.op \in {"none", "Write"}
        /\ last.outcome = "return" /\ last.err = "nil") =>
        sink \o rs.hdrData = Slice(input.bytes, 0, wpos)

\* C15: Write termination.  With a sink that accepts every buffer whole, every
\* Write call ends after finitely many iterations of its loop.
C15_WriteTerminates ==
    (last.op = "Write" /\ rs.w.kind = "whole") => last.outcome # "hang"

\* well-formed records without sparse blocks, read from a plain source by a caller
\* that never seeks
NoSparseRun ==
    /\ input.good /\ ~caller.seek /\ bu.r = "plain"
    /\ \A i \in 1..Len(input.recs) : input.recs[i].Id # U32(BackupSparseBlock)

\* C16: zero-size records keep their header.  The forward pipeline returns the
\* bytes of the source, headers of records without payload included, and the
\* reverse pipeline has emitted a record without payload once its header was
\* handed over completely.
C16_ZeroSizeKeepsHeader ==
    /\ (NoSparseRun /\ caller.mode = "fwd") =>
            IsPrefix(out, input.bytes) /\ (AtEOF => out = input.bytes)
    /\ (NoSparseRun /\ caller.mode = "rt" /\ Len(input.recs) = 1
            /\ Len(input.recs[1].Payload) = 0) =>
            /\ last.outcome = "return"
            /\ (wpos = Len(input.bytes) => sink = input.bytes)

\* the bytes the step's Read returned
Delivered == Slice(out', Len(out), Len(out'))

\* C17: leftover FIFO.  No Read returns more than len(p) bytes; a Read that finds
\* leftover bytes returns the first of them, keeps the rest in order, and touches
\* neither the source nor the hook nor state, BytesLeft and header; a Read leaves
\* leftover bytes only when it filled p.
C17_LeftoverFIFO ==
    [][ Read =>
            /\ last'.n <= last'.arg[1] /\ last'.n = Len(Delivered)
            /\ (bu.leftData # <<>> =>
                    /\ last'.err = "nil"
                    /\ last'.n = Min(last'.arg[1], Len(bu.leftData))
                    /\ Delivered \o bu'.leftData = bu.leftData
                    /\ bu'.ctx = bu.ctx /\ rpos' = rpos /\ last'.calls = <<>>)
            /\ (bu.leftData = <<>> /\ bu'.leftData # <<>> => last'.n = last'.arg[1]) ]_vars

\* a Read returned leftover bytes and more of them remain
C17_Witness ==
    /\ last.op = "Read" /\ last.at = "leftover" /\ last.n = last.arg[1]
    /\ bu.leftData # <<>> /\ last.calls = <<>>

\* C18: Active lifecycle of the forward pipeline.  After a Read that delivered
\* bytes for the header, Active is false; after a Read that decoded a header and
\* then failed in the hook or in the header encoding, nothing being delivered,
\* Active is still true.
C18_ActiveLifecycle ==
    /\ (last.op = "Read" /\ last.err = "nil" => ~bu.ctx.Hdr.active)
    /\ (last.op = "Read" /\ last.at \in {"handler", "encode"} /\ last.ndec > 0 =>
            bu.ctx.Hdr.active)

\* C19: payload accounting of the forward pipeline.  After every Read, failed ones
\* included, Size - BytesLeft is the number of payload bytes pulled from the source
\* for the current record, and no more than Size payload bytes are pulled for it.
C19_PayloadAccounting ==
    (bu.ctx.state = dataState /\ Len(tuples) > 0 /\ ~sought) =>
        /\ I64Sub(bu.ctx.Hdr.Size, bu.ctx.BytesLeft) = I64(Len(tuples[Len(tuples)].Payload))
        /\ (Len(tuples[Len(tuples)].Payload) > 0 =>
                I64LessEq(I64(Len(tuples[Len(tuples)].Payload)), bu.ctx.Hdr.Size))

\* the step is a Read that decoded a header whose payload is longer than p and
\* went on to deliver for it
FirstDelivery ==
    /\ Read /\ last'.ndec > 0 /\ bu'.ctx.state = dataState
    /\ I64Less(I64(last'.arg[1]), bu'.ctx.Hdr.Size)
    /\ ToBytes(bu'.ctx.Hdr).err = "nil"

\* C20: header-only delivery.  In a Read with an active header and more payload
\* left than len(p): when len(p) is not larger than the encoded header, nothing of
\* the payload is read, the hook is not called, BytesLeft stays, and the bytes
\* returned plus the leftover are the encoded header; when len(p) is larger, at
\* most len(p) minus the encoded size payload bytes are pulled and the header with
\* them fits p, nothing being left over.
C20_HeaderOnlyDelivery ==
    [][ FirstDelivery =>
            LET enc == ToBytes(bu'.ctx.Hdr).buf
                pulled == IntOf(I64Sub(bu'.ctx.Hdr.Size, bu'.ctx.BytesLeft))
                budget == last'.arg[1] - Len(enc)
            IN
            /\ (budget <= 0 =>
                    /\ last'.err = "nil" /\ pulled = 0
                    /\ Delivered \o bu'.leftData = enc
                    /\ \A i \in 1..Len(last'.calls) : last'.calls[i][1] # "Handler"
                    /\ tuples'[Len(tuples')].Payload = <<>>)
            /\ (budget > 0 =>
                    /\ \A i \in 2..Len(last'.calls) :
                            last'.calls[i][1] = "Handler" => last'.calls[i-1][2] <= budget
                    /\ Len(tuples'[Len(tuples')].Payload) <= budget
                    /\ bu'.leftData = <<>>
                    /\ (last'.err = "nil" =>
                            /\ pulled >= 0 /\ pulled <= budget
                            /\ Delivered = enc \o Slice(Source, rpos' - pulled, rpos'))) ]_vars

\* a Read with a buffer longer than the encoded header pulled payload up to the
\* buffer's length, more payload remaining
C20_Witness ==
    /\ last.op = "Read" /\ last.at = "payload" /\ last.ndec = 1
    /\ last.arg[1] > bu.ctx.Hdr.fullSize /\ last.n = last.arg[1]
    /\ I64Less(I64(0), bu.ctx.BytesLeft) /\ bu.leftData = <<>>
    /\ I64Sub(bu.ctx.Hdr.Size, bu.ctx.BytesLeft) = I64(last.arg[1] - bu.ctx.Hdr.fullSize)

\* C21: a zero-length Read is a no-op.  A Read with an empty buffer in dataState
\* with BytesLeft > 0 returns (0, nil) and changes neither the leftover bytes nor
\* state, BytesLeft and header nor the position of the source, so later Reads
\* deliver what they would have delivered without it.
C21_ZeroLengthRead ==
    [][ (Read /\ last'.arg[1] = 0 /\ bu.ctx.state = dataState
            /\ I64Less(I64(0), bu.ctx.BytesLeft)) =>
            /\ last'.n = 0 /\ last'.err = "nil"
            /\ bu'.leftData = bu.leftData
            /\ bu'.ctx.state = bu.ctx.state /\ bu'.ctx.BytesLeft = bu.ctx.BytesLeft
            /\ bu'.ctx.Hdr = bu.ctx.Hdr
            /\ rpos' = rpos /\ out' = out ]_vars

\* the bytes b are complete records, each a header followed by Size payload bytes
RECURSIVE WholeRecords(_)
WholeRecordsAfter(b, f) ==
    /\ f.err = "nil" /\ ~IsNeg(f.hdr.Size) /\ I64LessEq(f.hdr.Size, I64(Len(b) - f.n))
    /\ WholeRecords(Slice(b, f.n + IntOf(f.hdr.Size), Len(b)))
WholeRecords(b) == IF Len(b) = 0 THEN TRUE ELSE WholeRecordsAfter(b, fill(ZeroHdr, b))

\* C22: end-of-stream only at a record boundary.  Read returns io.EOF only when the
\* source is exhausted after a complete record payload and no leftover is pending; a
\* source that ends inside a header or inside a payload makes Read fail with another
\* error.
C22_EOFAtBoundary ==
    (caller.mode = "fwd" /\ ~caller.seek /\ AtEOF) =>
        /\ WholeRecords(input.bytes)
        /\ rpos = Len(input.bytes) /\ bu.leftData = <<>>

\* C23: forward-pipeline liveness.  Every Read with a non-empty buffer that finds no
\* leftover bytes returns an error or end-of-stream or consumes bytes of the source,
\* so over a finite source the Reads cannot return bytes for ever.
C23_ReadProgress ==
    [][ (Read /\ last'.arg[1] > 0 /\ bu.leftData = <<>>) =>
            (last'.err # "nil" \/ rpos' > rpos) ]_vars

\* the hook calls among the calls of a Write, and the calls of the sink's Write
IsHandler(c) == c[1] = "Handler"
IsSinkWrite(c) == c[1] = "Write"
HandlerCalls(calls) == SelectSeq(calls, IsHandler)

\* the bytes the step's Write handed to the sink
Emitted == Slice(sink', Len(sink), Len(sink'))

\* the step is a Write that returned and none of whose payload steps failed
StepsSucceed == Write /\ last'.outcome = "return" /\ last'.at \in {"end", "need", "fill"}

\* the Write starts inside the payload of a record whose header was emitted earlier
MidRecord == rs.ctx.state = dataState /\ rs.ctx.BytesLeft # I64(0)

\* C24: hook protocol of the reverse pipeline.  In a Write whose payload steps
\* succeed the hook sees Active = false on the step that continues the record of an
\* earlier Write and Active = true on the step of every record decoded in this
\* Write, one step per record; when the Write ends with the first step of a record,
\* the sink has received the record's encoded header once, followed by the payload
\* bytes of the step, at the end of what the Write emitted.
C24_HookProtocol ==
    [][ StepsSucceed =>
            LET hc == HandlerCalls(last'.calls)
                enc == ToBytes(rs'.ctx.Hdr).buf
                k == IntOf(I64Sub(rs'.ctx.Hdr.Size, rs'.ctx.BytesLeft))
                e == Emitted
                p == ChunkOf(last'.arg[1])
            IN
            /\ \A i \in 1..Len(hc) : hc[i][2] = ~(i = 1 /\ MidRecord)
            /\ Len(hc) <= last'.ndec + (IF MidRecord THEN 1 ELSE 0)
            /\ (Len(hc) = 0 => e = <<>>)
            /\ (Len(hc) = 1 /\ MidRecord =>
                    e = Slice(p, 0, IntOf(I64Sub(rs.ctx.BytesLeft, rs'.ctx.BytesLeft))))
            /\ (last'.at = "end" /\ Len(hc) >= 1 /\ hc[Len(hc)][2] =>
                    /\ k >= 0 /\ Len(e) >= Len(enc) + k
                    /\ Slice(e, Len(e) - k - Len(enc), Len(e) - k) = enc
                    /\ \E j \in 0..(Len(p) - k) : Slice(e, Len(e) - k, Len(e)) = Slice(p, j, j + k)
                    /\ (Len(hc) = 1 => Len(e) = Len(enc) + k)) ]_vars

\* a Write continued the payload of a record whose header an earlier Write emitted
C24_Witness ==
    /\ last.op = "Write" /\ last.outcome = "return" /\ last.err = "nil"
    /\ Len(last.calls) > 0 /\ last.calls[1] = <<"Handler", FALSE>>
    /\ Len(sink) > rs.ctx.Hdr.fullSize

\* the same Write on a sink that accepts every buffer whole
WholeRun(len) == RestoreUtil_Write([rs EXCEPT !.w = WholeSink], ChunkOf(len))

\* C25: short-write retry.  On a sink that accepts a part of the buffer, at least one
\* byte, WriteCb is asked after every attempt, every further attempt is made with
\* the remainder the sink did not accept, a Write that returns nil has handed over
\* the bytes and reached the state of the same Write on a sink that accepts
\* everything, and the first error WriteCb returns ends the Write with that error,
\* the sink holding the first bytes of the output.
C25_ShortWriteRetry ==
    [][ (Write /\ rs.w.kind \in {"short", "full"}) =>
            LET c == last'.calls IN
            /\ \A i \in 1..Len(c) :
                    c[i][1] = "Write" => i < Len(c) /\ c[i + 1][1] = "WriteCb"
            /\ \A i \in 1..Len(c) :
                    (c[i][1] = "WriteCb" /\ c[i][2] # "nil") =>
                        i = Len(c) /\ last'.err = c[i][2] /\ last'.at = "writecb"
            /\ \A i \in 1..Len(c) :
                    (c[i][1] = "Write" /\ i + 2 <= Len(c) /\ c[i + 2][1] = "Write") =>
                        c[i][3] >= 1 /\ c[i + 2][2] = c[i][2] - c[i][3]
            /\ (last'.err = "nil" =>
                    /\ Emitted = WholeRun(last'.arg[1]).emitted
                    /\ rs'.ctx = WholeRun(last'.arg[1]).rs.ctx
                    /\ rs'.hdrData = WholeRun(last'.arg[1]).rs.hdrData
                    /\ last'.n = WholeRun(last'.arg[1]).n)
            /\ (last'.at = "writecb" =>
                    IsPrefix(Emitted, WholeRun(last'.arg[1]).emitted)) ]_vars

\* a Write on a short sink needed more than one attempt and returned nil
C25_Witness ==
    /\ last.op = "Write" /\ rs.w.kind = "short" /\ last.err = "nil"
    /\ last.outcome = "return"
    /\ \E i \in 1..Len(last.calls) :
            /\ last.calls[i][1] = "Write" /\ last.calls[i][3] < last.calls[i][2]
            /\ i + 2 <= Len(last.calls) /\ last.calls[i + 2][1] = "Write"

\* C26: bounded retry.  Every Write of well-formed records with payload ends,
\* whatever the sink answers, a sink that accepts nothing without an error included.
C26_RetryTerminates ==
    (last.op = "Write" /\ rs.w.kind # "whole" /\ input.good /\ PlainRecords) =>
        last.outcome # "hang"

\* the step is a Write that ended in a payload step whose hook or WriteCb failed
FailedStep == Write /\ last'.at \in {"handler", "writecb"}

\* C27: a failed payload step changes nothing.  When the hook or WriteCb fails in a
\* payload step, Write returns that error and a count below len(p); state, BytesLeft
\* and Active are as they were when the step began: dataState, Active as the hook
\* saw it, and BytesLeft the Size of the header decoded in this Write or else the
\* BytesLeft the Write began with.
C27_FailedStepFrame ==
    [][ FailedStep =>
            LET hc == HandlerCalls(last'.calls) IN
            /\ last'.err # "nil" /\ last'.outcome = "return"
            /\ last'.n >= 0 /\ last'.n < last'.arg[1]
            /\ rs'.ctx.state = dataState
            /\ rs'.ctx.Hdr.active = hc[Len(hc)][2]
            /\ rs'.ctx.BytesLeft =
                    (IF last'.ndec > 0 THEN rs'.ctx.Hdr.Size ELSE rs.ctx.BytesLeft)
            /\ (last'.ndec = 0 => rs'.ctx.Hdr = rs.ctx.Hdr /\ rs.ctx.state = dataState) ]_vars

\* WriteCb returned the error of a sink that accepted a part of the hook's output
C27_Witness ==
    /\ last.op = "Write" /\ last.at = "writecb" /\ last.err = ErrSinkFull
    /\ rs.ctx.state = dataState /\ rs.ctx.Hdr.active
    /\ rs.ctx.BytesLeft = rs.ctx.Hdr.Size /\ I64Less(I64(0), rs.ctx.BytesLeft)

\* C28: fatal decode failure on the reverse path.  A Write in which the accumulated
\* header bytes decode to a named-alternate-stream header with an odd or zero name
\* length returns (0, that error), writes nothing to the sink, calls no hook and is
\* in strmState afterwards.
C28_FatalDecode ==
    [][ (Write /\ last'.at = "fill" /\ last'.err \in NameErrs) =>
            /\ last'.n = 0 /\ last'.outcome = "return"
            /\ last'.calls = <<>> /\ sink' = sink
            /\ rs'.ctx.state = strmState ]_vars

\* C29: the count Write returns.  For every Write(p) that returns, 0 <= n <= len(p),
\* and n = len(p) when the error is nil.
C29_WriteCount ==
    (last.op = "Write" /\ last.outcome = "return") =>
        /\ 0 <= last.n /\ last.n <= last.arg[1]
        /\ (last.err = "nil" => last.n = last.arg[1])

\* a Write that held two complete records, the first header assembled from bytes of
\* an earlier Write, returned len(p)
C29_Witness ==
    /\ last.op = "Write" /\ last.outcome = "return" /\ last.err = "nil"
    /\ last.ndec >= 2 /\ last.n = last.arg[1] /\ wpos > last.arg[1]

\* C30: payload slice bounds.  In no Write of well-formed records are the offsets
\* that slice the input out of range: 0 <= startOffset <= endOffset <= len(p).
C30_SliceBounds ==
    (last.op = "Write" /\ input.good) => ~(last.outcome = "panic" /\ last.at = "slice")

\* the answer of the source or sink to the Seek call a pipeline forwarded
SeekAnswer(calls) == [ret |-> calls[1][4], err |-> calls[1][5]]

\* what C31 says of a Seek made in dataState on a pipeline whose context was ctx
\* and is ctxAfter, which returned (n, err) after the calls `calls`
SeekWithin(ctx, ctxAfter, n, err, calls) ==
    /\ Len(calls) = 1
    /\ SeekAnswer(calls).err = "nil" =>
            /\ n = I64(SeekAnswer(calls).ret) /\ err = "nil"
            /\ ctxAfter.BytesLeft = I64Sub(ctx.BytesLeft, I64(SeekAnswer(calls).ret))
            /\ I64LessEq(ctxAfter.BytesLeft, ctx.BytesLeft)
            /\ ctxAfter.state = dataState
            /\ ctxAfter.Hdr = ctx.Hdr
    /\ SeekAnswer(calls).err \notin {"nil", ERROR_SEEK} =>
            /\ err = SeekAnswer(calls).err
            /\ ctxAfter.state = dataState

\* C31: seek within a record.  A Seek in dataState (InPayload) is forwarded once; when
\* the source or sink answers (m, nil), Seek returns (m, nil), BytesLeft goes down by
\* exactly m and the state and the header stay as they were; when it answers an error
\* other than ERROR_SEEK, Seek returns that error and the state stays dataState.
C31_SeekWithinRecord ==
    [][ /\ (BackupSeek /\ bu.ctx.state = dataState) =>
                SeekWithin(bu.ctx, bu'.ctx, last'.moved, last'.err, last'.calls)
        /\ (RestoreSeek /\ rs.ctx.state = dataState) =>
                SeekWithin(rs.ctx, rs'.ctx, last'.moved, last'.err, last'.calls) ]_vars

\* the BackupUtil skipped one payload byte of a record after reading four
C31_Witness ==
    /\ last.op = "BackupSeek" /\ last.moved = I64(1) /\ last.err = "nil"
    /\ Len(last.calls) = 1 /\ SeekAnswer(last.calls) = [ret |-> 1, err |-> "nil"]
    /\ bu.ctx.state = dataState /\ bu.ctx.BytesLeft = I64(LargePayload - 5)
    /\ bu.ctx.Hdr.Size = I64(LargePayload)

\* what C32 says of a Seek made in dataState that the source or sink answered with
\* ERROR_SEEK
SeekBoundary(ctx, ctxAfter, n, err, calls) ==
    (Len(calls) = 1 /\ SeekAnswer(calls).err = ERROR_SEEK) =>
        /\ err = "nil" /\ n = ctx.BytesLeft
        /\ ctxAfter.BytesLeft = I64(0)
        /\ ctxAfter.state = strmState

\* the last call was a Seek that landed on the next record boundary
AfterBoundarySeek(op) ==
    /\ last.op = op /\ last.err = "nil"
    /\ Len(last.calls) = 1 /\ SeekAnswer(last.calls).err = ERROR_SEEK

\* C32: seek landing on the next record boundary.  When a Seek in dataState is
\* answered with ERROR_SEEK, it returns a nil error and the payload bytes that were
\* left of the record, BytesLeft becomes 0 and the state strmState; the Read that
\* follows (nothing left over from earlier reads) starts by reading a base header
\* from the source and the Write that follows starts by decoding a header.
C32_SeekToBoundary ==
    [][ /\ (BackupSeek /\ bu.ctx.state = dataState) =>
                SeekBoundary(bu.ctx, bu'.ctx, last'.moved, last'.err, last'.calls)
        /\ (RestoreSeek /\ rs.ctx.state = dataState) =>
                SeekBoundary(rs.ctx, rs'.ctx, last'.moved, last'.err, last'.calls)
        /\ (Read /\ AfterBoundarySeek("BackupSeek") /\ bu.leftData = <<>>) =>
                /\ last'.calls # <<>>
                /\ last'.calls[1] = <<"Read", hdrSz>>
        /\ (Write /\ AfterBoundarySeek("RestoreSeek")) =>
                (last'.ndec >= 1 \/ last'.at \in {"need", "fill"}) ]_vars

\* a Seek of the RestoreUtil over the last two payload bytes of a record
C32_Witness ==
    /\ AfterBoundarySeek("RestoreSeek") /\ last.moved = I64(2) /\ last.arg = <<3, SeekCurrent>>
    /\ rs.ctx.state = strmState /\ rs.ctx.BytesLeft = I64(0) /\ rs.ctx.LastErr = ERROR_SEEK
    /\ wpos = hdrSz + LargePayload

\* the bytes the caller passes to Write next are one whole well-formed record
WholeRecordNext(len) ==
    /\ fill(ZeroHdr, ChunkOf(len)).err = "nil"
    /\ fill(ZeroHdr, ChunkOf(len)).hdr.Size
            = I64(Len(ChunkOf(len)) - fill(ZeroHdr, ChunkOf(len)).n)

\* C33: the reverse pipeline keeps working after a boundary seek.  After a Seek of the
\* RestoreUtil that returned the boundary outcome, a Write of one complete well-formed
\* record through the default Handler and WriteCb returns nil, consumes the record
\* and emits it to the sink.
C33_WriteAfterBoundarySeek ==
    [][ (/\ Write /\ AfterBoundarySeek("RestoreSeek")
         /\ rs.ctx.state = strmState /\ rs.w.kind = "whole"
         /\ last'.arg[1] > 0 /\ WholeRecordNext(last'.arg[1]))
        => /\ last'.outcome = "return" /\ last'.err = "nil"
           /\ last'.n = last'.arg[1]
           /\ Emitted = ChunkOf(last'.arg[1]) ]_vars

\* C34: no seek across a header.  A Seek made when no payload byte of the current
\* record is left (BytesLeft = 0, the source or sink stands at the start of the next
\* header) fails with ErrSkipHeader and calls nothing on the source or sink.
C34_NoSeekAcrossHeader ==
    [][ /\ (BackupSeek /\ bu.ctx.BytesLeft = I64(0)) =>
                last'.calls = <<>> /\ last'.err = ErrSkipHeader
        /\ (RestoreSeek /\ rs.ctx.BytesLeft = I64(0)) =>
                last'.calls = <<>> /\ last'.err = ErrSkipHeader ]_vars

\* a header holds no Name or SparseOffset that its record type does not have
NoStaleFields(h) ==
    /\ h.Id # U32(BackupAlternateData) => h.Name = <<>>
    /\ h.Id # U32(BackupSparseBlock) => h.SparseOffset = U64(0)

\* C35: no stale header fields.  After every successful decode, into a fresh header
\* or into one that held an earlier record, Name is empty unless the record is a
\* named alternate stream and SparseOffset is 0 unless it is a sparse block; the same
\* holds for every header the forward pipeline decoded and for the header either
\* pipeline holds after a successful call.
C35_NoStaleFields ==
    /\ (cres.op = "D" /\ cres.err = "nil") => NoStaleFields(cres.hdr) /\ NoStaleFields(chdr)
    /\ \A i \in 1..Len(tuples) : NoStaleFields(tuples[i])
    /\ (last.op = "Read" /\ last.err = "nil") => NoStaleFields(bu.ctx.Hdr)
    /\ (last.op = "Write" /\ last.err = "nil" /\ last.outcome = "return")
            => NoStaleFields(rs.ctx.Hdr)

\* a data-stream header was decoded into a header that held a named sparse record
C35_Witness ==
    /\ cin.kind = "wire" /\ cin.hdr = StaleHdr /\ ctrace = <<"D">>
    /\ cres.op = "D" /\ cres.err = "nil"
    /\ chdr.Id = U32(BackupData) /\ chdr.Name = <<>> /\ chdr.SparseOffset = U64(0)

\* the number of header bytes of the record that starts the wire bytes w
WireHdrLen(w) ==
    IF IsAltWire(w) THEN hdrSz + NatOf(WireNameSize(w))
    ELSE IF IsSparseWire(w) THEN hdrSz + offsetSz
    ELSE hdrSz

\* C36: encoded size agrees with the encoder.  For every successfully decoded header
\* h, fullSize is the number of header bytes taken from the source (20, 20 +
\* StreamNameSize for a named alternate stream, 28 for a sparse block), ToBytes(h)
\* succeeds and returns exactly fullSize bytes.
C36_EncodedSize ==
    (cres.op = "D" /\ cres.err = "nil") =>
        /\ cres.hdr.fullSize = cres.n
        /\ cres.n = WireHdrLen(cres.buf)
        /\ ToBytes(cres.hdr).err = "nil"
        /\ Len(ToBytes(cres.hdr).buf) = cres.hdr.fullSize

\* what C40 expects of extractStrmName(s): the part between the leading ':' and the
\* trailing ":$DATA", and the empty string for every s that has not both
Unwrapped(s) ==
    IF Len(s) > 6 /\ s[1] = Colon /\ Slice(s, Len(s) - 6, Len(s)) = DataSuffix
    THEN Slice(s, 1, Len(s) - 6)
    ELSE <<>>

\* the wire bytes hold a whole named-alternate-stream header with a name of even,
\* non-zero length
NamedWire(w) ==
    /\ IsAltWire(w) /\ WireNameSize(w) # U32(0) /\ ~OddNameSize(w)
    /\ NamePresent(w)

\* C40: name unwrap.  extractStrmName(s), applied by fill to the name s of a
\* named-alternate-stream header, returns without a run-time panic the part of s
\* between the leading ':' and the trailing ":$DATA", and the empty string when s has
\* not both, ":$DATA" itself included; and extractStrmName(":" + n + ":$DATA") = n
\* for every non-empty name n.
C40_NameUnwrap ==
    (cin.kind = "wire" /\ NamedWire(cin.wire) /\ ctrace = <<"D">>) =>
        /\ cres.err = "nil"
        /\ cres.hdr.Name = Unwrapped(UTF16ToString(WireName(cin.wire)))
        /\ cres.hdr.Name = extractStrmName(UTF16ToString(WireName(cin.wire)))
        /\ \A n \in {NameA, NameAds1} :
                extractStrmName(<<Colon>> \o n \o DataSuffix) = n

\* the goroutines that are inside a native call
InNative == {g \in Goroutines : gr[g].pc = "native"}

\* C37: native transfer object serialization.  Under every interleaving of goroutines
\* calling read, write, seek and close on one bkupStruct, at most one goroutine is
\* inside a native call, it holds the mutex from before the call until after it, and
\* no read, write or seek gives a handle to the native side that a close released.
C37_Serialized ==
    /\ Cardinality(InNative) <= 1
    /\ \A g \in Goroutines : gr[g].pc \in {"held", "native", "after"} => mu = g
    /\ \A g \in InNative :
            gr[g].op \in {"read", "write", "seek"} => gr[g].h \notin hist.released

\* a close released the handle; one goroutine is inside the native call of a later
\* read, made with the zero handle, while another waits for the mutex
C37_Witness ==
    /\ hist.released = {1} /\ so.h = 0
    /\ \E g1 \in Goroutines, g2 \in Goroutines :
        /\ gr[g1].pc = "native" /\ gr[g1].op = "read" /\ gr[g1].h = 0
        /\ gr[g2].pc = "wait" /\ mu = g1

\* what C38 says of a seek that was given whence and, if it made the native call,
\* got nat from it
SeekOutcome(whence, nat, n, err, called) ==
    /\ whence # SeekCurrent => err # "nil" /\ ~called
    /\ whence = SeekCurrent =>
        /\ called
        /\ (nat.err = "nil" /\ nat.n > 0) => (n = nat.n /\ err = "nil")
        /\ (nat.err = "nil" /\ nat.n = 0) => err = ErrEOF
        /\ nat.err = ERROR_SUCCESS => err = ErrSkipHeader
        /\ nat.err = ERROR_SEEK => err = ERROR_SEEK
        /\ nat.err \notin {"nil", ERROR_SUCCESS, ERROR_SEEK} =>
                err = PathError("BackupSeek", SrcPath, nat.err)

\* C38: native seek outcomes are surfaced distinctly.  bkupStruct.seek rejects every
\* whence other than io.SeekCurrent with an error and without a native call; for a
\* native success it returns (moved, nil) when moved > 0 and io.EOF when moved = 0;
\* for a native failure without error code it returns ErrSkipHeader; for ERROR_SEEK
\* it returns that error value itself; every other native error comes back wrapped
\* with the operation and the path.
C38_SeekOutcomes ==
    \A g \in Goroutines :
        (gr[g].op = "seek" /\ gr[g].pc \in {"after", "idle"}) =>
            SeekOutcome(gr[g].whence, gr[g].nat, gr[g].n, gr[g].err, gr[g].native)

\* one seek met the end of the record and another a failure of the native call
C38_Witness ==
    \E g1 \in Goroutines, g2 \in Goroutines :
        /\ gr[g1].op = "seek" /\ gr[g1].pc = "idle" /\ gr[g1].native
        /\ gr[g1].nat.err = ERROR_SEEK /\ gr[g1].err = ERROR_SEEK
        /\ gr[g2].op = "seek" /\ gr[g2].pc = "after" /\ gr[g2].native
        /\ gr[g2].nat.err = ERROR_ACCESS_DENIED
        /\ gr[g2].err = "BackupSeek f: ERROR_ACCESS_DENIED"

\* C39: alternate-stream map consistency.  RenameADS and RemoveADS of a name that is
\* not in StreamInfoMap fail without a filesystem operation; when they fail the map
\* is unchanged; after a successful RenameADS(old, new) the map holds new with the
\* size old had and, when the names differ, no longer holds old; after a successful
\* RemoveADS(name) the map no longer holds name; after RemoveAllADS the map holds
\* exactly the streams whose removal failed: those os.Remove failed on and, when
\* none was tried, the named streams the file still has.
C39_MapConsistency ==
    /\ (lastAds.op \in {"RenameADS", "RemoveADS"} /\ lastAds.name \notin DOMAIN lastAds.pre)
            => lastAds.err # "nil" /\ lastAds.fsops = 0
    /\ (lastAds.op \in {"RenameADS", "RemoveADS"} /\ lastAds.err # "nil")
            => fads.StreamInfoMap = lastAds.pre
    /\ (lastAds.op = "RenameADS" /\ lastAds.err = "nil") =>
            /\ lastAds.newName \in DOMAIN fads.StreamInfoMap
            /\ fads.StreamInfoMap[lastAds.newName] = lastAds.pre[lastAds.name]
            /\ lastAds.name # lastAds.newName => lastAds.name \notin DOMAIN fads.StreamInfoMap
    /\ (lastAds.op = "RemoveADS" /\ lastAds.err = "nil")
            => lastAds.name \notin DOMAIN fads.StreamInfoMap
    /\ lastAds.op = "RemoveAllADS" =>
            \/ DOMAIN fads.StreamInfoMap = lastAds.failed
            \/ lastAds.tried = {} /\ DOMAIN fads.StreamInfoMap = DOMAIN fstreams
====
